---- MODULE Spec2Model ----
(***************************************************************************)
(* Model of the roller selection/scroll engine (lv_roller.c).              *)
(*                                                                         *)
(* The roller's fields, its label's text and vertical offset, the one     *)
(* scroll animation the label can carry, the group's editing flag and the  *)
(* input device's press state are the variables.  Every public function    *)
(* and every signal the roller handles is one action.  The functions are   *)
(* operators over a record of the fields, so that a handler that calls     *)
(* another function is the composition of the two operators.               *)
(***************************************************************************)
EXTENDS Integers, Sequences, FiniteSets, TLC

(***************************************************************************)
(* Bounds of the model.                                                    *)
(***************************************************************************)
\* largest buf_size handed to lv_roller_get_selected_str
MaxBuf == 4
\* lines by which a drag may pull the label past either end of the text
MaxOver == 0

(***************************************************************************)
(* Constants of the program and of its environment.                        *)
(***************************************************************************)
LV_ROLLER_INF_PAGES == 5

LV_ROLLER_MODE_NORMAL == "NORMAL"
LV_ROLLER_MODE_INFINITE == "INFINITE"
Modes == {LV_ROLLER_MODE_NORMAL, LV_ROLLER_MODE_INFINITE}

LV_ANIM_OFF == FALSE
LV_ANIM_ON == TRUE

LV_INDEV_TYPE_POINTER == "POINTER"
LV_INDEV_TYPE_KEYPAD == "KEYPAD"
LV_INDEV_TYPE_BUTTON == "BUTTON"
LV_INDEV_TYPE_ENCODER == "ENCODER"
IndevTypes ==
    {LV_INDEV_TYPE_POINTER, LV_INDEV_TYPE_KEYPAD, LV_INDEV_TYPE_BUTTON, LV_INDEV_TYPE_ENCODER}

LV_KEY_UP == "UP"
LV_KEY_DOWN == "DOWN"
LV_KEY_LEFT == "LEFT"
LV_KEY_RIGHT == "RIGHT"
LV_KEY_ENTER == "ENTER"
Keys == {LV_KEY_UP, LV_KEY_DOWN, LV_KEY_LEFT, LV_KEY_RIGHT, LV_KEY_ENTER}

\* characters of an option text; NL separates two options, NUL ends a C string
NL == "\n"
NUL == "NUL"

\* the style values the handlers read: line height of the font, line spacing,
\* inner height of the roller, and the two animation times a style can give
font_h == 2
line_space == 1
roller_h == 8
AnimTimes == {0, 200}

\* the options the constructor installs
DefaultOptions ==
    <<"O", "p", "t", "i", "o", "n", " ", "1", "\n",
      "O", "p", "t", "i", "o", "n", " ", "2", "\n",
      "O", "p", "t", "i", "o", "n", " ", "3", "\n",
      "O", "p", "t", "i", "o", "n", " ", "4", "\n",
      "O", "p", "t", "i", "o", "n", " ", "5">>

(***************************************************************************)
(* C arithmetic.                                                           *)
(***************************************************************************)
\* a value stored in a uint16_t
U16(x) == x % 65536

\* a value stored in an int16_t
S16(x) == ((x + 32768) % 65536) - 32768

\* C's integer division, which truncates towards zero
CDiv(a, b) ==
    IF a >= 0 THEN a \div b ELSE -((-a) \div b)

(***************************************************************************)
(* Texts.                                                                  *)
(***************************************************************************)
\* the texts a caller hands to lv_roller_set_options: the empty text, a text
\* of one option, and a text of two options of which the last is empty
OptionTexts ==
    {<<>>, <<"a">>, <<"a", "b", NL>>}

\* number of '\n' among the first n characters of text
RECURSIVE CountNL(_, _)
CountNL(text, n) ==
    IF n = 0 THEN 0
    ELSE CountNL(text, n - 1) + (IF text[n] = NL THEN 1 ELSE 0)

\* count_options without the option after the last '\n'
count_options_no_last(options) ==
    U16(CountNL(options, Len(options)))

\* the count loop of lv_roller_set_options: the '\n's of the text, plus one
count_options(options) ==
    U16(CountNL(options, Len(options)) + 1)

\* the text of pages copies of options, each but the last followed by '\n'
RECURSIVE opt_extra(_, _)
opt_extra(options, pages) ==
    IF pages = 1 THEN options
    ELSE options \o <<NL>> \o opt_extra(options, pages - 1)

(***************************************************************************)
(* The roller's functions, as operators over the record s of its state:    *)
(*   mode, option_cnt, sel_opt_id, sel_opt_id_ori, moved   lv_roller_t     *)
(*   txt, y             the label's text and its offset in the roller      *)
(*   anim_act, anim_end the label's lv_obj_set_y animation, if any         *)
(*   anims              the animations lv_anim holds for the roller        *)
(*   anim_time          the roller's anim_time style value                 *)
(*   editing            the editing flag of the roller's group             *)
(***************************************************************************)
\* height of one line of the label
label_unit == font_h + line_space

\* offset of the label at which line id lies in the middle of the roller
target_y(id) ==
    S16((roller_h \div 2 - font_h \div 2) - S16(id * label_unit))

\* lv_roller_get_selected dividing the id by the number of pages
lv_roller_get_selected_div(s) ==
    IF s.mode = LV_ROLLER_MODE_INFINITE
    THEN s.sel_opt_id \div LV_ROLLER_INF_PAGES
    ELSE s.sel_opt_id

lv_roller_get_selected(s) ==
    IF s.mode = LV_ROLLER_MODE_INFINITE
    THEN LET real_id_cnt == s.option_cnt \div LV_ROLLER_INF_PAGES
         IN s.sel_opt_id % real_id_cnt
    ELSE s.sel_opt_id

lv_roller_get_option_cnt(s) ==
    IF s.mode = LV_ROLLER_MODE_INFINITE
    THEN s.option_cnt \div LV_ROLLER_INF_PAGES
    ELSE s.option_cnt

\* middle_page_id taking the id modulo the number of pages
middle_page_id_mod_pages(id, option_cnt) ==
    LET real_id_cnt == option_cnt \div LV_ROLLER_INF_PAGES
    IN U16((id % LV_ROLLER_INF_PAGES) + (LV_ROLLER_INF_PAGES \div 2) * real_id_cnt)

\* middle_page_id selecting the first page
middle_page_id_first(id, option_cnt) ==
    LET real_id_cnt == option_cnt \div LV_ROLLER_INF_PAGES
    IN U16(id % real_id_cnt)

\* middle_page_id moving on to the next option
middle_page_id_next(id, option_cnt) ==
    LET real_id_cnt == option_cnt \div LV_ROLLER_INF_PAGES
    IN U16(((id + 1) % real_id_cnt) + (LV_ROLLER_INF_PAGES \div 2) * real_id_cnt)

\* the id of the middle page that has the logical index of id
middle_page_id(id, option_cnt) ==
    LET real_id_cnt == option_cnt \div LV_ROLLER_INF_PAGES
    IN U16((id % real_id_cnt) + (LV_ROLLER_INF_PAGES \div 2) * real_id_cnt)

\* inf_normalize that leaves the label where it is
inf_normalize_keep_y(s) ==
    IF s.mode = LV_ROLLER_MODE_INFINITE
    THEN LET sel == middle_page_id(s.sel_opt_id, s.option_cnt)
             ori == middle_page_id(sel, s.option_cnt)
         IN [s EXCEPT !.sel_opt_id = sel, !.sel_opt_id_ori = ori]
    ELSE s

inf_normalize(s) ==
    IF s.mode = LV_ROLLER_MODE_INFINITE
    THEN LET sel == middle_page_id(s.sel_opt_id, s.option_cnt)
             \* the snapshot is computed from the selection just stored
             ori == middle_page_id(sel, s.option_cnt)
         IN [s EXCEPT !.sel_opt_id = sel, !.sel_opt_id_ori = ori, !.y = target_y(sel)]
    ELSE s

\* lv_anim_del: the animations of var with exec_cb are removed from the list,
\* their ready_cb is not called
lv_anim_del(anims, var, exec_cb) ==
    SelectSeq(anims, LAMBDA a : ~(a.var = var /\ a.exec_cb = exec_cb))

\* lv_anim_start that leaves the animations of the same var and exec_cb
lv_anim_start_add(anims, a) ==
    Append(anims, a)

\* lv_anim_start: the new animation replaces those of the same var and exec_cb
lv_anim_start(anims, a) ==
    Append(lv_anim_del(anims, a.var, a.exec_cb), a)

\* the animation refr_position sets up: lv_obj_set_y of the label to new_y
scroll_anim(new_y) ==
    [var |-> "label", exec_cb |-> "lv_obj_set_y", end |-> new_y,
     ready_cb |-> "scroll_anim_ready_cb"]

\* refr_position that takes the animation time 0 for an animation
refr_position_time(s, anim_en) ==
    LET now == (anim_en = LV_ANIM_OFF)
        s1 == IF now THEN inf_normalize(s) ELSE s
        new_y == target_y(s1.sel_opt_id)
    IN IF now
       THEN [s1 EXCEPT !.anim_act = FALSE, !.anim_end = 0, !.y = new_y,
                       !.anims = lv_anim_del(s1.anims, "label", "lv_obj_set_y")]
       ELSE [s1 EXCEPT !.anim_act = TRUE, !.anim_end = new_y,
                       !.anims = lv_anim_start(s1.anims, scroll_anim(new_y))]

refr_position(s, anim_en) ==
    LET now == (anim_en = LV_ANIM_OFF) \/ (s.anim_time = 0)
        s1 == IF now THEN inf_normalize(s) ELSE s
        new_y == target_y(s1.sel_opt_id)
    IN IF now
       THEN [s1 EXCEPT !.anim_act = FALSE, !.anim_end = 0, !.y = new_y,
                       !.anims = lv_anim_del(s1.anims, "label", "lv_obj_set_y")]
       ELSE [s1 EXCEPT !.anim_act = TRUE, !.anim_end = new_y,
                       !.anims = lv_anim_start(s1.anims, scroll_anim(new_y))]

\* the id lv_roller_set_selected makes of its argument in infinite mode
page_relative_id(sel_opt_id, sel_opt) ==
    LET page == sel_opt_id \div LV_ROLLER_INF_PAGES
        sel_opt_signed ==
            IF page # 0 THEN sel_opt - page * LV_ROLLER_INF_PAGES ELSE sel_opt
    IN U16(page * LV_ROLLER_INF_PAGES + sel_opt_signed)

\* clamp_sel_opt without the clamp
clamp_sel_opt_none(sel_opt, option_cnt) ==
    sel_opt

\* clamp_sel_opt letting the id one past the last option through
clamp_sel_opt_past(sel_opt, option_cnt) ==
    IF sel_opt <= option_cnt THEN sel_opt ELSE U16(option_cnt - 1)

\* the id lv_roller_set_selected stores
clamp_sel_opt(sel_opt, option_cnt) ==
    IF sel_opt < option_cnt THEN sel_opt ELSE U16(option_cnt - 1)

\* store_selected leaving the snapshot as it was
store_selected_keep_ori(s, sel_opt) ==
    LET abs_opt ==
            IF s.mode = LV_ROLLER_MODE_INFINITE
            THEN page_relative_id(s.sel_opt_id, sel_opt)
            ELSE sel_opt
    IN [s EXCEPT !.sel_opt_id = clamp_sel_opt(abs_opt, s.option_cnt)]

\* lv_roller_set_selected up to its call of refr_position
store_selected(s, sel_opt) ==
    LET abs_opt ==
            IF s.mode = LV_ROLLER_MODE_INFINITE
            THEN page_relative_id(s.sel_opt_id, sel_opt)
            ELSE sel_opt
        id == clamp_sel_opt(abs_opt, s.option_cnt)
    IN [s EXCEPT !.sel_opt_id = id, !.sel_opt_id_ori = id]

lv_roller_set_selected(s, sel_opt, anim) ==
    refr_position(store_selected(s, sel_opt), anim)

lv_roller_set_options(s, options, m) ==
    LET cnt == count_options(options)
    IN IF m = LV_ROLLER_MODE_NORMAL
       THEN [s EXCEPT !.mode = LV_ROLLER_MODE_NORMAL, !.option_cnt = cnt,
                      !.sel_opt_id = 0, !.sel_opt_id_ori = 0, !.txt = options]
       ELSE LET s1 == [s EXCEPT !.mode = LV_ROLLER_MODE_INFINITE,
                                !.txt = opt_extra(options, LV_ROLLER_INF_PAGES),
                                !.sel_opt_id = U16((LV_ROLLER_INF_PAGES \div 2) * cnt),
                                !.sel_opt_id_ori = 0,
                                !.option_cnt = U16(cnt * LV_ROLLER_INF_PAGES)]
                s2 == inf_normalize(s1)
            IN [s2 EXCEPT !.sel_opt_id_ori = s2.sel_opt_id]

\* first loop of lv_roller_get_selected_str: from index i (0-based) with line
\* '\n's counted, the index at which line sel_opt_id starts
RECURSIVE selected_line_start(_, _, _, _)
selected_line_start(opt_txt, i, line, sel_opt_id) ==
    IF i < Len(opt_txt) /\ line # sel_opt_id
    THEN selected_line_start(opt_txt, i + 1,
                             IF opt_txt[i + 1] = NL THEN U16(line + 1) ELSE line,
                             sel_opt_id)
    ELSE i

\* copy_line stopping one byte later
RECURSIVE copy_line_late(_, _, _, _)
copy_line_late(opt_txt, i, buf, buf_size) ==
    IF i < Len(opt_txt) /\ opt_txt[i + 1] # NL
    THEN IF buf_size # 0 /\ Len(buf) >= buf_size
         THEN buf
         ELSE copy_line_late(opt_txt, i + 1, Append(buf, opt_txt[i + 1]), buf_size)
    ELSE buf

\* second loop of lv_roller_get_selected_str: the bytes stored in buf[0..c-1]
RECURSIVE copy_line(_, _, _, _)
copy_line(opt_txt, i, buf, buf_size) ==
    IF i < Len(opt_txt) /\ opt_txt[i + 1] # NL
    THEN IF buf_size # 0 /\ Len(buf) >= buf_size - 1
         THEN buf
         ELSE copy_line(opt_txt, i + 1, Append(buf, opt_txt[i + 1]), buf_size)
    ELSE buf

\* the bytes lv_roller_get_selected_str writes, from buf[0] on
lv_roller_get_selected_str(s, buf_size) ==
    LET i == selected_line_start(s.txt, 0, 0, s.sel_opt_id)
    IN Append(copy_line(s.txt, i, <<>>, buf_size), NUL)

\* the loop of the tap branch of release_handler; every letter of the texts
\* here is one byte, so _lv_txt_encoded_next moves i by one
RECURSIVE click_loop(_, _, _, _, _, _)
click_loop(txt, letter_i, letter_cnt, i, i_prev, new_opt) ==
    IF letter_cnt < letter_i
    THEN click_loop(txt, letter_i, letter_cnt + 1, i + 1, i + 1,
                    IF txt[i + 1] = NL /\ i_prev # letter_i
                    THEN S16(new_opt + 1) ELSE new_opt)
    ELSE new_opt

\* the tap branch of release_handler: the line of letter letter_i
clicked_option(txt, letter_i) ==
    click_loop(txt, letter_i, 0, 0, 0, 0)

\* the drag branch of release_handler: the line in the middle after the throw
dragged_option(s, throw) ==
    LET mid == (roller_h - 1) \div 2
        label_y1 == S16(s.y + throw)
        id == CDiv(mid - label_y1, label_unit)
    IN IF id < 0 THEN 0
       ELSE IF id >= s.option_cnt THEN s.option_cnt - 1
       ELSE id

\* release_handler leaving the editing submode for a keypad too
release_handler_keypad_leaves(s, indev_type, letter_i, throw) ==
    LET s1 == IF indev_type \in {LV_INDEV_TYPE_ENCODER, LV_INDEV_TYPE_KEYPAD}
              THEN [s EXCEPT !.sel_opt_id_ori = s.sel_opt_id, !.editing = FALSE]
              ELSE s
    IN IF indev_type \in {LV_INDEV_TYPE_POINTER, LV_INDEV_TYPE_BUTTON}
       THEN LET new_opt == IF s1.moved = 0
                           THEN clicked_option(s1.txt, letter_i)
                           ELSE S16(dragged_option(s1, throw))
            IN IF new_opt >= 0
               THEN lv_roller_set_selected(s1, U16(new_opt), LV_ANIM_ON)
               ELSE s1
       ELSE s1

\* release_handler up to the event it sends
release_handler(s, indev_type, letter_i, throw) ==
    LET s1 == IF indev_type \in {LV_INDEV_TYPE_ENCODER, LV_INDEV_TYPE_KEYPAD}
              THEN [s EXCEPT !.sel_opt_id_ori = s.sel_opt_id,
                             !.editing = IF indev_type = LV_INDEV_TYPE_ENCODER
                                         THEN FALSE ELSE s.editing]
              ELSE s
    IN IF indev_type \in {LV_INDEV_TYPE_POINTER, LV_INDEV_TYPE_BUTTON}
       THEN LET new_opt == IF s1.moved = 0
                           THEN clicked_option(s1.txt, letter_i)
                           ELSE S16(dragged_option(s1, throw))
            IN IF new_opt >= 0
               THEN lv_roller_set_selected(s1, U16(new_opt), LV_ANIM_ON)
               ELSE s1
       ELSE s1

\* the id release_handler sends with LV_EVENT_VALUE_CHANGED
value_changed_id(s) ==
    s.sel_opt_id

\* signal_focus saving the selection whatever the device
signal_focus_save(s, indev_type) ==
    [s EXCEPT !.sel_opt_id_ori = s.sel_opt_id]

\* signal_focus handling every device as it handles an encoder
signal_focus_encoder(s, indev_type) ==
    IF ~s.editing
    THEN IF s.sel_opt_id # s.sel_opt_id_ori
         THEN refr_position([s EXCEPT !.sel_opt_id = s.sel_opt_id_ori], LV_ANIM_ON)
         ELSE s
    ELSE [s EXCEPT !.sel_opt_id_ori = s.sel_opt_id]

\* LV_SIGNAL_FOCUS
signal_focus(s, indev_type) ==
    IF indev_type = LV_INDEV_TYPE_ENCODER
    THEN IF ~s.editing
         THEN IF s.sel_opt_id # s.sel_opt_id_ori
              THEN refr_position([s EXCEPT !.sel_opt_id = s.sel_opt_id_ori], LV_ANIM_ON)
              ELSE s
         ELSE [s EXCEPT !.sel_opt_id_ori = s.sel_opt_id]
    ELSE [s EXCEPT !.sel_opt_id_ori = s.sel_opt_id]

\* signal_defocus reverting nothing
signal_defocus_keep(s) ==
    s

\* LV_SIGNAL_DEFOCUS
signal_defocus(s) ==
    IF s.sel_opt_id # s.sel_opt_id_ori
    THEN refr_position([s EXCEPT !.sel_opt_id = s.sel_opt_id_ori], LV_ANIM_ON)
    ELSE s

\* signal_control leaving the snapshot as lv_roller_set_selected wrote it
signal_control_commit(s, c) ==
    IF c \in {LV_KEY_RIGHT, LV_KEY_DOWN}
    THEN IF s.sel_opt_id + 1 < s.option_cnt
         THEN lv_roller_set_selected(s, U16(s.sel_opt_id + 1), LV_ANIM_ON)
         ELSE s
    ELSE IF c \in {LV_KEY_LEFT, LV_KEY_UP}
    THEN IF s.sel_opt_id > 0
         THEN lv_roller_set_selected(s, U16(s.sel_opt_id - 1), LV_ANIM_ON)
         ELSE s
    ELSE s

\* LV_SIGNAL_CONTROL
signal_control(s, c) ==
    IF c \in {LV_KEY_RIGHT, LV_KEY_DOWN}
    THEN IF s.sel_opt_id + 1 < s.option_cnt
         THEN LET ori_id == s.sel_opt_id_ori
                  s1 == lv_roller_set_selected(s, U16(s.sel_opt_id + 1), LV_ANIM_ON)
              IN [s1 EXCEPT !.sel_opt_id_ori = ori_id]
         ELSE s
    ELSE IF c \in {LV_KEY_LEFT, LV_KEY_UP}
    THEN IF s.sel_opt_id > 0
         THEN LET ori_id == s.sel_opt_id_ori
                  s1 == lv_roller_set_selected(s, U16(s.sel_opt_id - 1), LV_ANIM_ON)
              IN [s1 EXCEPT !.sel_opt_id_ori = ori_id]
         ELSE s
    ELSE s

\* LV_SIGNAL_PRESSED
signal_pressed(s) ==
    [s EXCEPT !.moved = 0, !.anim_act = FALSE, !.anim_end = 0,
              !.anims = lv_anim_del(s.anims, "label", "lv_obj_set_y")]

\* LV_SIGNAL_PRESSING, the input device having moved by p_y
signal_pressing(s, p_y) ==
    IF p_y # 0 THEN [s EXCEPT !.y = S16(s.y + p_y), !.moved = 1] ELSE s

\* LV_SIGNAL_STYLE_CHG, the style now giving anim_time t
signal_style_chg(s, t) ==
    refr_position([s EXCEPT !.anim_time = t], LV_ANIM_OFF)

\* scroll_anim_ready_cb without the call of inf_normalize
scroll_anim_ready_cb_none(s) ==
    [s EXCEPT !.y = s.anim_end, !.anim_act = FALSE, !.anim_end = 0,
              !.anims = Tail(s.anims)]

\* scroll_anim_ready_cb, run by the animation when it reaches its end value;
\* lv_anim has taken the animation off its list
scroll_anim_ready_cb(s) ==
    inf_normalize([s EXCEPT !.y = s.anim_end, !.anim_act = FALSE, !.anim_end = 0,
                            !.anims = Tail(s.anims)])

\* one step of the running animation: lv_obj_set_y with a value on the way,
\* a line closer to the end value
anim_exec(s) ==
    [s EXCEPT !.y = IF s.anim_end - s.y > label_unit THEN s.y + label_unit
                    ELSE IF s.y - s.anim_end > label_unit THEN s.y - label_unit
                    ELSE s.anim_end]

\* lv_roller_constructor with copy == NULL
lv_roller_constructor ==
    LET s0 == [mode |-> LV_ROLLER_MODE_NORMAL, option_cnt |-> 0, sel_opt_id |-> 0,
               sel_opt_id_ori |-> 0, moved |-> 0, txt |-> <<>>, y |-> 0,
               anim_act |-> FALSE, anim_end |-> 0, anims |-> <<>>,
               anim_time |-> 200, editing |-> FALSE]
        s1 == lv_roller_set_options(s0, DefaultOptions, LV_ROLLER_MODE_NORMAL)
    IN \* lv_obj_set_height changes the size: LV_SIGNAL_COORD_CHG
       refr_position(s1, LV_ANIM_OFF)

(***************************************************************************)
(* lv_table.c: what the table's functions read from outside.               *)
(***************************************************************************)
\* the width the constructor and lv_table_set_col_cnt give a new column
LV_DPI_DEF == 3

\* the width of a letter of the font
letter_w == 1

\* the paddings of a cell the style gives
cell_left == 0
cell_right == 0
cell_top == 1
cell_bottom == 1

\* the digits lv_vsnprintf writes
DigitChars == <<"0", "1", "2", "3", "4", "5", "6", "7", "8", "9">>

Min(a, b) == IF a <= b THEN a ELSE b

(***************************************************************************)
(* The table's functions, as operators over the record t of its state:     *)
(*   row_cnt, col_cnt   lv_table_t                                         *)
(*   col_w, row_h       the arrays of column widths and row heights        *)
(*   cell_data          the array of cell buffers, row after row           *)
(* Array index i of the code is element i + 1 of the sequence.  A cell     *)
(* buffer is its format byte (crop, right_merge) and its text; NULL is the *)
(* entry of a cell without buffer.                                         *)
(***************************************************************************)
NULL == [buf |-> FALSE, crop |-> FALSE, right_merge |-> FALSE, txt |-> <<>>]

\* a buffer with format byte (crop, right_merge) and text txt
CellBuf(crop, right_merge, txt) ==
    [buf |-> TRUE, crop |-> crop, right_merge |-> right_merge, txt |-> txt]

Max(a, b) == IF a >= b THEN a ELSE b

\* lv_mem_realloc of an array to n entries: the entries kept, and fill in the
\* entries added
Realloc(arr, n, fill) ==
    [i \in 1 .. n |-> IF i <= Len(arr) THEN arr[i] ELSE fill]

\* lv_txt_get_size: the number of lines text takes where a line holds the
\* letters that fit in max_w, at least one, and ends at a '\n'
RECURSIVE txt_lines(_, _, _, _)
txt_lines(text, i, in_line, per_line) ==
    IF i > Len(text) THEN 1
    ELSE IF text[i] = NL THEN 1 + txt_lines(text, i + 1, 0, per_line)
    ELSE IF in_line >= per_line THEN 1 + txt_lines(text, i + 1, 1, per_line)
    ELSE txt_lines(text, i + 1, in_line + 1, per_line)

\* lv_txt_get_size: the height of text broken into lines of width max_w
txt_size_y(text, max_w) ==
    LET per_line == IF max_w < letter_w THEN 1 ELSE max_w \div letter_w
        lines == txt_lines(text, 1, 0, per_line)
    IN lines * font_h + (lines - 1) * line_space

\* the merge loop of get_row_height that runs over cells without buffer
RECURSIVE merge_count_null(_, _, _, _)
merge_count_null(t, cell, col, col_merge) ==
    IF col_merge + col < t.col_cnt - 1
       /\ (t.cell_data[cell + col_merge + 1] = NULL
           \/ t.cell_data[cell + col_merge + 1].right_merge)
    THEN merge_count_null(t, cell, col, col_merge + 1)
    ELSE col_merge

\* the merge loop of get_row_height: from col_merge on, the number of cells
\* merged to the right of the cell at index cell in column col
RECURSIVE merge_count(_, _, _, _)
merge_count(t, cell, col, col_merge) ==
    IF col_merge + col < t.col_cnt - 1
       /\ t.cell_data[cell + col_merge + 1] # NULL
       /\ t.cell_data[cell + col_merge + 1].right_merge
    THEN merge_count(t, cell, col, col_merge + 1)
    ELSE col_merge

\* the merge loop of get_row_height: the width of the cell in column col with
\* the col_merge columns merged to its right
RECURSIVE merged_w(_, _, _)
merged_w(t, col, col_merge) ==
    IF col_merge = 0 THEN t.col_w[col + 1]
    ELSE merged_w(t, col, col_merge - 1) + t.col_w[col + col_merge + 1]

\* the cell loop of get_row_height that keeps the height of the last cell in
\* place of the greatest
RECURSIVE row_height_loop_last(_, _, _, _, _)
row_height_loop_last(t, row_start, cell, col, h_max) ==
    IF cell < row_start + t.col_cnt
    THEN IF t.cell_data[cell + 1] # NULL
         THEN LET col_merge == merge_count(t, cell, col, 0)
                  txt_w == merged_w(t, col, col_merge)
              IN IF t.cell_data[cell + 1].crop
                 THEN row_height_loop_last(t, row_start, cell + 1, col + 1,
                                           font_h + cell_top + cell_bottom)
                 ELSE LET h == txt_size_y(t.cell_data[cell + 1].txt,
                                          txt_w - (cell_left + cell_right))
                      IN row_height_loop_last(t, row_start, cell + col_merge + 1,
                                              col + col_merge + 1,
                                              h + cell_top + cell_bottom)
         ELSE row_height_loop_last(t, row_start, cell + 1, col + 1, h_max)
    ELSE h_max

\* the cell loop of get_row_height, at index cell in column col with the
\* height h_max so far
RECURSIVE row_height_loop(_, _, _, _, _)
row_height_loop(t, row_start, cell, col, h_max) ==
    IF cell < row_start + t.col_cnt
    THEN IF t.cell_data[cell + 1] # NULL
         THEN LET col_merge == merge_count(t, cell, col, 0)
                  txt_w == merged_w(t, col, col_merge)
                  one_line == font_h + cell_top + cell_bottom
              IN IF t.cell_data[cell + 1].crop
                 THEN row_height_loop(t, row_start, cell + 1, col + 1,
                                      Max(one_line, h_max))
                 ELSE LET h == txt_size_y(t.cell_data[cell + 1].txt,
                                          txt_w - (cell_left + cell_right))
                      IN row_height_loop(t, row_start, cell + col_merge + 1,
                                         col + col_merge + 1,
                                         Max(h + cell_top + cell_bottom, h_max))
         ELSE row_height_loop(t, row_start, cell + 1, col + 1, h_max)
    ELSE h_max

get_row_height(t, row_id) ==
    LET row_start == row_id * t.col_cnt
    IN row_height_loop(t, row_start, row_start, 0, font_h + cell_top + cell_bottom)

refr_size(t) ==
    [t EXCEPT !.row_h = [i \in 1 .. Len(t.row_h) |->
                            IF i <= t.row_cnt THEN get_row_height(t, i - 1)
                            ELSE t.row_h[i]]]

\* lv_table_set_row_cnt without the lv_mem_realloc of row_h
lv_table_set_row_cnt_row_h(t, row_cnt) ==
    refr_size([t EXCEPT !.row_cnt = row_cnt,
                        !.cell_data = Realloc(t.cell_data, row_cnt * t.col_cnt, NULL)])

lv_table_set_row_cnt(t, row_cnt) ==
    LET old_row_cnt == t.row_cnt
        \* what the entries added to row_h hold is written by refr_size before
        \* anything reads it
        t1 == [t EXCEPT !.row_cnt = row_cnt,
                        !.row_h = Realloc(t.row_h, row_cnt, 0),
                        !.cell_data = Realloc(t.cell_data, row_cnt * t.col_cnt, NULL)]
    IN refr_size(t1)

\* lv_table_set_col_cnt that resizes cell_data in place, as lv_table_set_row_cnt
\* does, without the copy of each row to its new place
lv_table_set_col_cnt_in_place(t, col_cnt) ==
    refr_size([t EXCEPT !.col_cnt = col_cnt,
                        !.col_w = Realloc(t.col_w, col_cnt, LV_DPI_DEF),
                        !.cell_data = Realloc(t.cell_data, t.row_cnt * col_cnt, NULL)])

lv_table_set_col_cnt(t, col_cnt) ==
    LET old_col_cnt == t.col_cnt
        min_col_cnt == Min(old_col_cnt, col_cnt)
        new_cell_data ==
            [i \in 1 .. t.row_cnt * col_cnt |->
                LET row == (i - 1) \div col_cnt
                    col == (i - 1) % col_cnt
                IN IF col < min_col_cnt
                   THEN t.cell_data[row * old_col_cnt + col + 1]
                   ELSE NULL]
        t1 == [t EXCEPT !.col_cnt = col_cnt,
                        !.col_w = Realloc(t.col_w, col_cnt, LV_DPI_DEF),
                        !.cell_data = new_cell_data]
    IN refr_size(t1)

\* lv_table_set_row_cnt where lv_mem_realloc returns NULL, for row_h or for
\* cell_data: the count and the pointer have taken their new values before
\* the check returns; a NULL array has no entries, and junk is what the
\* entries added to row_h hold
lv_table_set_row_cnt_nomem(t, row_cnt, which, junk) ==
    IF which = "row_h"
    THEN [t EXCEPT !.row_cnt = row_cnt, !.row_h = <<>>]
    ELSE [t EXCEPT !.row_cnt = row_cnt, !.row_h = Realloc(t.row_h, row_cnt, junk),
                   !.cell_data = <<>>]

\* lv_table_set_col_cnt where lv_mem_realloc of col_w or lv_mem_alloc of the
\* new cell_data returns NULL: the count is the new one; in the second case
\* cell_data is the old array in its old layout, and junk is what the
\* entries added to col_w hold
lv_table_set_col_cnt_nomem(t, col_cnt, which, junk) ==
    IF which = "col_w"
    THEN [t EXCEPT !.col_cnt = col_cnt, !.col_w = <<>>]
    ELSE [t EXCEPT !.col_cnt = col_cnt, !.col_w = Realloc(t.col_w, col_cnt, junk)]

\* the auto expand of the setters of a cell
auto_expand(t, row, col) ==
    LET t1 == IF col >= t.col_cnt THEN lv_table_set_col_cnt(t, U16(col + 1)) ELSE t
    IN IF row >= t1.row_cnt THEN lv_table_set_row_cnt(t1, U16(row + 1)) ELSE t1

\* write_txt that gives every buffer the format byte zero
write_txt_zero(old, txt) ==
    CellBuf(FALSE, FALSE, txt)

\* the buffer that takes text txt in place of buffer old: the format byte of
\* old is kept, and that of a cell without buffer is zero
write_txt(old, txt) ==
    IF old # NULL THEN CellBuf(old.crop, old.right_merge, txt)
    ELSE CellBuf(FALSE, FALSE, txt)

\* lv_table_set_cell_value with the index of the cell taken before the auto
\* expand
lv_table_set_cell_value_old_index(t, row, col, txt) ==
    LET t1 == auto_expand(t, row, col)
        cell == row * t.col_cnt + col
    IN refr_size([t1 EXCEPT !.cell_data[cell + 1] = write_txt(t1.cell_data[cell + 1], txt)])

lv_table_set_cell_value(t, row, col, txt) ==
    LET t1 == auto_expand(t, row, col)
        cell == row * t1.col_cnt + col
    IN refr_size([t1 EXCEPT !.cell_data[cell + 1] = write_txt(t1.cell_data[cell + 1], txt)])

\* the decimal digits of n
RECURSIVE Digits(_)
Digits(n) ==
    IF n < 10 THEN <<DigitChars[n + 1]>> ELSE Digits(n \div 10) \o <<DigitChars[(n % 10) + 1]>>

\* lv_vsnprintf with one int argument: fmt from letter i on, with every %d
\* replaced by the digits of arg
RECURSIVE lv_vsnprintf(_, _, _)
lv_vsnprintf(fmt, i, arg) ==
    IF i > Len(fmt) THEN <<>>
    ELSE IF fmt[i] = "%" /\ i < Len(fmt) /\ fmt[i + 1] = "d"
         THEN Digits(arg) \o lv_vsnprintf(fmt, i + 2, arg)
         ELSE <<fmt[i]>> \o lv_vsnprintf(fmt, i + 1, arg)

lv_table_set_cell_value_fmt(t, row, col, fmt, arg) ==
    IF col >= t.col_cnt THEN t
    ELSE LET t1 == IF row >= t.row_cnt THEN lv_table_set_row_cnt(t, U16(row + 1)) ELSE t
             cell == row * t1.col_cnt + col
             txt == lv_vsnprintf(fmt, 1, arg)
         IN refr_size([t1 EXCEPT !.cell_data[cell + 1] =
                                     write_txt(t1.cell_data[cell + 1], txt)])

lv_table_set_col_width(t, col_id, w) ==
    LET t1 == IF col_id >= t.col_cnt THEN lv_table_set_col_cnt(t, U16(col_id + 1)) ELSE t
    IN refr_size([t1 EXCEPT !.col_w[col_id + 1] = w])

\* format_buf whose new buffer has both flags of the format byte set
format_buf_set(old) ==
    IF old = NULL THEN CellBuf(TRUE, TRUE, <<>>) ELSE old

\* the buffer of a cell whose format byte is to be written: the buffer it
\* has, or a new one with format byte zero and the empty text
format_buf(old) ==
    IF old = NULL THEN CellBuf(FALSE, FALSE, <<>>) ELSE old

lv_table_set_cell_crop(t, row, col, crop) ==
    LET t1 == auto_expand(t, row, col)
        cell == row * t1.col_cnt + col
        b == format_buf(t1.cell_data[cell + 1])
    IN [t1 EXCEPT !.cell_data[cell + 1] = [b EXCEPT !.crop = crop]]

lv_table_set_cell_merge_right(t, row, col, en) ==
    LET t1 == auto_expand(t, row, col)
        cell == row * t1.col_cnt + col
        b == format_buf(t1.cell_data[cell + 1])
    IN refr_size([t1 EXCEPT !.cell_data[cell + 1] = [b EXCEPT !.right_merge = en]])

\* lv_table_set_cell_value where the lv_mem_realloc of the cell buffer returns
\* NULL: the entry of the cell has taken the NULL before the check returns
lv_table_set_cell_value_nomem(t, row, col, txt) ==
    LET t1 == auto_expand(t, row, col)
        cell == row * t1.col_cnt + col
    IN [t1 EXCEPT !.cell_data[cell + 1] = NULL]

\* lv_table_set_cell_value_fmt where the lv_mem_realloc of the cell buffer
\* returns NULL
lv_table_set_cell_value_fmt_nomem(t, row, col, fmt, arg) ==
    IF col >= t.col_cnt THEN t
    ELSE LET t1 == IF row >= t.row_cnt THEN lv_table_set_row_cnt(t, U16(row + 1)) ELSE t
             cell == row * t1.col_cnt + col
         IN [t1 EXCEPT !.cell_data[cell + 1] = NULL]

\* lv_table_set_cell_crop where lv_mem_alloc returns NULL: it is called for a
\* cell without buffer only, whose entry stays NULL
lv_table_set_cell_crop_nomem(t, row, col, crop) ==
    LET t1 == auto_expand(t, row, col)
        cell == row * t1.col_cnt + col
    IN IF t1.cell_data[cell + 1] = NULL THEN t1
       ELSE lv_table_set_cell_crop(t, row, col, crop)

\* lv_table_set_cell_merge_right where lv_mem_alloc returns NULL
lv_table_set_cell_merge_right_nomem(t, row, col, en) ==
    LET t1 == auto_expand(t, row, col)
        cell == row * t1.col_cnt + col
    IN IF t1.cell_data[cell + 1] = NULL THEN t1
       ELSE lv_table_set_cell_merge_right(t, row, col, en)

lv_table_get_cell_value(t, row, col) ==
    IF row >= t.row_cnt \/ col >= t.col_cnt THEN <<>>
    ELSE LET cell == row * t.col_cnt + col
         IN IF t.cell_data[cell + 1] = NULL THEN <<>>
            ELSE t.cell_data[cell + 1].txt

lv_table_get_row_cnt(t) == t.row_cnt

lv_table_get_col_cnt(t) == t.col_cnt

\* lv_table_get_col_width that returns the default width for a column the
\* table has not
lv_table_get_col_width_default(t, col_id) ==
    IF col_id >= t.col_cnt THEN LV_DPI_DEF ELSE t.col_w[col_id + 1]

lv_table_get_col_width(t, col_id) ==
    IF col_id >= t.col_cnt THEN 0 ELSE t.col_w[col_id + 1]

lv_table_get_cell_crop(t, row, col) ==
    IF row >= t.row_cnt \/ col >= t.col_cnt THEN FALSE
    ELSE LET cell == row * t.col_cnt + col
         IN IF t.cell_data[cell + 1] = NULL THEN FALSE
            ELSE t.cell_data[cell + 1].crop

lv_table_get_cell_merge_right(t, row, col) ==
    IF row >= t.row_cnt \/ col >= t.col_cnt THEN FALSE
    ELSE LET cell == row * t.col_cnt + col
         IN IF t.cell_data[cell + 1] = NULL THEN FALSE
            ELSE t.cell_data[cell + 1].right_merge

\* lv_table_destructor, of the heap blocks of the table: the body of the
\* function is a comment, it frees none
lv_table_destructor(heap) == heap

\* the format lv_table_draw starts a cell with: the format byte of the buffer,
\* or no merge and crop for a cell without buffer
draw_format(c) ==
    IF c # NULL THEN [right_merge |-> c.right_merge, crop |-> c.crop]
    ELSE [right_merge |-> FALSE, crop |-> TRUE]

\* the merge loop of lv_table_draw for the cell at index cell in column col,
\* from col_merge on: the number of cells merged, the format the loop read
\* last and the right edge of the cell area
RECURSIVE draw_merge(_, _, _, _, _, _)
draw_merge(t, cell, col, col_merge, format, x2) ==
    IF col_merge + col < t.col_cnt - 1 /\ t.cell_data[cell + col_merge + 1] # NULL
    THEN LET c == t.cell_data[cell + col_merge + 1]
         IN IF c.right_merge
            THEN draw_merge(t, cell, col, col_merge + 1, draw_format(c),
                            x2 + t.col_w[col + col_merge + 2])
            ELSE [col_merge |-> col_merge, format |-> draw_format(c), x2 |-> x2]
    ELSE [col_merge |-> col_merge, format |-> format, x2 |-> x2]

\* _lv_area_intersect: the areas have a point in common
area_intersect(a, b) ==
    /\ Max(a.x1, b.x1) <= Min(a.x2, b.x2)
    /\ Max(a.y1, b.y1) <= Min(a.y2, b.y2)

\* what lv_table_draw does for the cell at index cell whose area is cell_area:
\* the begin event, the rectangle, the label of a cell with a buffer where the
\* clip area meets the cell, and the end event
draw_cell(t, clip_area, row, col, cell, cell_area, format) ==
    LET id == row * t.col_cnt + col
        h_row == t.row_h[row + 1]
        c == t.cell_data[cell + 1]
        txt_w == (cell_area.x2 - cell_right) - (cell_area.x1 + cell_left) + 1
        txt_size_y_ == txt_size_y(c.txt, txt_w)
        txt_area ==
            IF ~format.crop
            THEN [x1 |-> cell_area.x1 + cell_left, x2 |-> cell_area.x2 - cell_right,
                  y1 |-> cell_area.y1 + h_row \div 2 - txt_size_y_ \div 2,
                  y2 |-> cell_area.y1 + h_row \div 2 + txt_size_y_ \div 2]
            ELSE [x1 |-> cell_area.x1 + cell_left, x2 |-> cell_area.x2 - cell_right,
                  y1 |-> cell_area.y1 + cell_top, y2 |-> cell_area.y2 - cell_bottom]
    IN <<[ev |-> "LV_EVENT_DRAW_PART_BEGIN", id |-> id, area |-> cell_area]>>
       \o <<[ev |-> "lv_draw_rect", id |-> cell, area |-> cell_area]>>
       \o (IF c # NULL /\ area_intersect(clip_area, cell_area)
           THEN <<[ev |-> "lv_draw_label", id |-> cell, area |-> txt_area,
                   txt |-> c.txt, crop |-> format.crop]>>
           ELSE <<>>)
       \o <<[ev |-> "LV_EVENT_DRAW_PART_END", id |-> id, area |-> cell_area]>>

\* the column loop of lv_table_draw that visits every cell of the row
RECURSIVE draw_row_each(_, _, _, _, _, _, _, _)
draw_row_each(t, clip_area, row, col, cell, y1, x2, out) ==
    IF col < t.col_cnt
    THEN LET x1 == x2 + 1
             y2 == y1 + t.row_h[row + 1] - 1
             m == draw_merge(t, cell, col, 0, draw_format(t.cell_data[cell + 1]),
                             x1 + t.col_w[col + 1] - 1)
             cell_area == [x1 |-> x1, x2 |-> m.x2, y1 |-> y1, y2 |-> y2]
         IN draw_row_each(t, clip_area, row, col + 1, cell + 1, y1, m.x2,
                          IF y2 < clip_area.y1 THEN out
                          ELSE out \o draw_cell(t, clip_area, row, col, cell,
                                                cell_area, m.format))
    ELSE [out |-> out, cell |-> cell]

\* the column loop of lv_table_draw, at index cell in column col of row, the
\* row's top at y1 and the area of the cell before ending at x2
RECURSIVE draw_row(_, _, _, _, _, _, _, _)
draw_row(t, clip_area, row, col, cell, y1, x2, out) ==
    IF col < t.col_cnt
    THEN LET x1 == x2 + 1
             y2 == y1 + t.row_h[row + 1] - 1
             m == draw_merge(t, cell, col, 0, draw_format(t.cell_data[cell + 1]),
                             x1 + t.col_w[col + 1] - 1)
             cell_area == [x1 |-> x1, x2 |-> m.x2, y1 |-> y1, y2 |-> y2]
         IN draw_row(t, clip_area, row, col + m.col_merge + 1, cell + m.col_merge + 1,
                     y1, m.x2,
                     IF y2 < clip_area.y1 THEN out
                     ELSE out \o draw_cell(t, clip_area, row, col, cell,
                                           cell_area, m.format))
    ELSE [out |-> out, cell |-> cell]

\* the row loop of lv_table_draw, the row before ending at y2
RECURSIVE draw_rows(_, _, _, _, _, _)
draw_rows(t, clip_area, row, cell, y2, out) ==
    IF row < t.row_cnt
    THEN LET y1 == y2 + 1
         IN IF y1 > clip_area.y2 THEN out
            ELSE LET r == draw_row(t, clip_area, row, 0, cell, y1, -1, out)
                 IN draw_rows(t, clip_area, row + 1, r.cell,
                              y1 + t.row_h[row + 1] - 1, r.out)
    ELSE out

\* lv_table_draw with LV_DRAW_MODE_MAIN_DRAW, the table at (0, 0), not
\* scrolled, left to right, without paddings and borders of the background:
\* the events sent and the draw calls made, in order
lv_table_draw(t, clip_area) ==
    draw_rows(t, clip_area, 0, 0, -1, <<>>)

LV_RES_OK == "LV_RES_OK"
LV_RES_INV == "LV_RES_INV"

\* the scan loops of lv_table_get_pressed_cell: from entry i on and with the
\* sum tmp of the sizes before it, the first entry of sizes whose span holds
\* the coordinate p, or cnt
RECURSIVE pressed_scan(_, _, _, _, _)
pressed_scan(sizes, cnt, i, tmp, p) ==
    IF i < cnt
    THEN LET tmp1 == S16(tmp + sizes[i + 1])
         IN IF p < tmp1 THEN i ELSE pressed_scan(sizes, cnt, i + 1, tmp1, p)
    ELSE i

\* lv_table_get_pressed_cell with row and col not NULL, for the acting input
\* device of type type at the point (x, y), relative to the first cell
lv_table_get_pressed_cell(t, type, x, y) ==
    IF type # LV_INDEV_TYPE_POINTER /\ type # LV_INDEV_TYPE_BUTTON
    THEN [res |-> LV_RES_INV, row |-> 65535, col |-> 65535]
    ELSE [res |-> LV_RES_OK,
          row |-> pressed_scan(t.row_h, t.row_cnt, 0, 0, y),
          col |-> pressed_scan(t.col_w, t.col_cnt, 0, 0, x)]

\* lv_table_constructor with copy == NULL
lv_table_constructor ==
    [row_cnt |-> 1, col_cnt |-> 1, col_w |-> <<LV_DPI_DEF>>, row_h |-> <<LV_DPI_DEF>>,
     cell_data |-> <<NULL>>]

(***************************************************************************)
(* State.                                                                  *)
(***************************************************************************)
VARIABLES
    mode,            \* roller->mode
    option_cnt,      \* roller->option_cnt
    sel_opt_id,      \* roller->sel_opt_id
    sel_opt_id_ori,  \* roller->sel_opt_id_ori
    moved,           \* roller->moved
    txt,             \* text of the label
    label_y,         \* y of the label, relative to the roller
    anim_act,        \* an lv_obj_set_y animation of the label is running
    anim_end,        \* its end value
    anims,           \* the animations of the roller in the list of lv_anim
    anim_time,       \* the roller's anim_time style value
    editing,         \* lv_group_get_editing of the roller's group
    pressed,         \* an input device holds the roller pressed
    options,         \* history: the text of the last lv_roller_set_options
    last_set,        \* history: the id of the last lv_roller_set_selected, or -1
    last,            \* history: the last call or signal
    revert_to,       \* history: the option an uncommitted run of keys began at, or -1
    row_cnt,         \* table->row_cnt
    col_cnt,         \* table->col_cnt
    col_w,           \* table->col_w
    row_h,           \* table->row_h
    cell_data,       \* table->cell_data
    table_last,      \* history: the last call of a function of the table
    heap_bufs        \* history: the cell buffers allocated and not freed

vars ==
    <<mode, option_cnt, sel_opt_id, sel_opt_id_ori, moved, txt, label_y, anim_act,
      anim_end, anims, anim_time, editing, pressed, options, last_set, last, revert_to,
      row_cnt, col_cnt, col_w, row_h, cell_data, table_last, heap_bufs>>

\* the variables of the roller
roller_vars ==
    <<mode, option_cnt, sel_opt_id, sel_opt_id_ori, moved, txt, label_y, anim_act,
      anim_end, anims, anim_time, editing, pressed, options, last_set, last, revert_to>>

\* the variables of the table
table_vars ==
    <<row_cnt, col_cnt, col_w, row_h, cell_data, table_last, heap_bufs>>

\* the record of the current state
St ==
    [mode |-> mode, option_cnt |-> option_cnt, sel_opt_id |-> sel_opt_id,
     sel_opt_id_ori |-> sel_opt_id_ori, moved |-> moved, txt |-> txt, y |-> label_y,
     anim_act |-> anim_act, anim_end |-> anim_end, anims |-> anims,
     anim_time |-> anim_time, editing |-> editing]

\* the current state is the record s
Is(s) ==
    /\ mode = s.mode
    /\ option_cnt = s.option_cnt
    /\ sel_opt_id = s.sel_opt_id
    /\ sel_opt_id_ori = s.sel_opt_id_ori
    /\ moved = s.moved
    /\ txt = s.txt
    /\ label_y = s.y
    /\ anim_act = s.anim_act
    /\ anim_end = s.anim_end
    /\ anims = s.anims
    /\ anim_time = s.anim_time
    /\ editing = s.editing

\* the next state is the record s
Becomes(s) ==
    /\ mode' = s.mode
    /\ option_cnt' = s.option_cnt
    /\ sel_opt_id' = s.sel_opt_id
    /\ sel_opt_id_ori' = s.sel_opt_id_ori
    /\ moved' = s.moved
    /\ txt' = s.txt
    /\ label_y' = s.y
    /\ anim_act' = s.anim_act
    /\ anim_end' = s.anim_end
    /\ anims' = s.anims
    /\ anim_time' = s.anim_time
    /\ editing' = s.editing

\* a history record: operation op with argument arg and animation flag anim,
\* run for an input device of type dev, which sent id ev with
\* LV_EVENT_VALUE_CHANGED (-1: which sent no event)
Did(op, arg, anim, dev, ev) ==
    [op |-> op, arg |-> arg, anim |-> anim, dev |-> dev, ev |-> ev]

\* the history record of the steps that take no argument the state does not
\* show and send no event, and of the signals that found nothing to do
Other == Did("other", -1, FALSE, "", -1)

\* the record of the current state of the table
Tb ==
    [row_cnt |-> row_cnt, col_cnt |-> col_cnt, col_w |-> col_w, row_h |-> row_h,
     cell_data |-> cell_data]

\* the current state of the table is the record t
TableIs(t) ==
    /\ row_cnt = t.row_cnt
    /\ col_cnt = t.col_cnt
    /\ col_w = t.col_w
    /\ row_h = t.row_h
    /\ cell_data = t.cell_data

\* the next state of the table is the record t
TableBecomes(t) ==
    /\ row_cnt' = t.row_cnt
    /\ col_cnt' = t.col_cnt
    /\ col_w' = t.col_w
    /\ row_h' = t.row_h
    /\ cell_data' = t.cell_data

\* a history record of the table: function op called for row and col (the
\* new count, where op sets one) of a table of old_row_cnt rows and
\* old_col_cnt columns; a field op has no use for is 0
TableDid(op, row, col, old_row_cnt, old_col_cnt) ==
    [op |-> op, row |-> row, col |-> col, old_row_cnt |-> old_row_cnt,
     old_col_cnt |-> old_col_cnt]

\* the history record of the calls the properties do not tell apart
TableOther == TableDid("other", 0, 0, 0, 0)

\* the option a run of keys that begins in state s would have to revert to:
\* the selection of s where it is the snapshot; -1 where s begins no run
RunStart(s) ==
    IF s.sel_opt_id = s.sel_opt_id_ori THEN lv_roller_get_selected(s) ELSE -1

Init ==
    /\ Is(lv_roller_constructor)
    /\ pressed = FALSE
    /\ options = DefaultOptions
    /\ last_set = -1
    /\ last = Did("create", -1, FALSE, "", -1)
    /\ revert_to = RunStart(lv_roller_constructor)
    /\ TableIs(lv_table_constructor)
    /\ table_last = TableDid("create", 0, 0, 0, 0)
    /\ heap_bufs = 0

(***************************************************************************)
(* Actions: the public functions that change the roller.  The getters are  *)
(* the operators lv_roller_get_selected, lv_roller_get_option_cnt and      *)
(* lv_roller_get_selected_str of the current state.                        *)
(***************************************************************************)
\* the ids a caller hands to lv_roller_set_selected: the ids of the options and
\* the two past them, the last id of the text and the one past it, and the
\* largest uint16_t
SelOpts ==
    (0 .. lv_roller_get_option_cnt(St) + 1) \cup {option_cnt - 1, option_cnt, 65535}

SetOptions ==
    \E o \in OptionTexts, m \in Modes :
        /\ Becomes(lv_roller_set_options(St, o, m))
        /\ revert_to' = RunStart(St)'
        /\ options' = o
        /\ last_set' = -1
        /\ last' = Did("set_options", -1, FALSE, "", -1)
        /\ UNCHANGED table_vars
        /\ UNCHANGED pressed

SetSelected ==
    \E sel_opt \in SelOpts, anim \in {LV_ANIM_OFF, LV_ANIM_ON} :
        /\ Becomes(lv_roller_set_selected(St, sel_opt, anim))
        /\ revert_to' = RunStart(St)'
        /\ last_set' = IF sel_opt < lv_roller_get_option_cnt(St) THEN sel_opt ELSE -1
        /\ last' = Did("set_selected", sel_opt, anim, "", -1)
        /\ UNCHANGED table_vars
        /\ UNCHANGED <<pressed, options>>

(***************************************************************************)
(* Actions: the signals.  The type of the input device that acts is an     *)
(* input of each signal that reads it.                                     *)
(***************************************************************************)
SignalStyleChg ==
    \E t \in AnimTimes :
        /\ Becomes(signal_style_chg(St, t))
        /\ revert_to' = RunStart(St)'
        /\ last' = Other
        /\ UNCHANGED table_vars
        /\ UNCHANGED <<pressed, options, last_set>>

SignalCoordChg ==
    /\ Becomes(refr_position(St, LV_ANIM_OFF))
    /\ revert_to' = RunStart(St)'
    /\ last' = Other
    /\ UNCHANGED table_vars
    /\ UNCHANGED <<pressed, options, last_set>>

SignalPressed ==
    /\ Becomes(signal_pressed(St))
    /\ UNCHANGED revert_to
    /\ pressed' = TRUE
    /\ last' = Other
    /\ UNCHANGED table_vars
    /\ UNCHANGED <<options, last_set>>

\* the moves of the input device between two reads (lv_indev_get_vect): a
\* line up or down, or none
Vects == {-label_unit, 0, label_unit}

SignalPressing ==
    \E p_y \in Vects :
        /\ pressed
        /\ label_y + p_y >= target_y(option_cnt - 1 + MaxOver)
        /\ label_y + p_y <= target_y(-MaxOver)
        /\ Becomes(signal_pressing(St, p_y))
        /\ UNCHANGED revert_to
        /\ last' = Other
        /\ UNCHANGED table_vars
        /\ UNCHANGED <<pressed, options, last_set>>

\* the letters lv_label_get_letter_on may answer; the answer is read only
\* where the device has a point and has not moved
Letters(indev_type) ==
    IF indev_type \in {LV_INDEV_TYPE_POINTER, LV_INDEV_TYPE_BUTTON} /\ moved = 0
    THEN 0 .. Len(txt)
    ELSE {0}

\* what lv_indev_scroll_throw_predict may answer; the answer is read only
\* where the device has a point and has moved
Throws(indev_type) ==
    IF indev_type \in {LV_INDEV_TYPE_POINTER, LV_INDEV_TYPE_BUTTON} /\ moved # 0
    THEN {-label_unit, 0, label_unit}
    ELSE {0}

SignalReleased ==
    \E t \in IndevTypes :
        \E letter_i \in Letters(t), throw \in Throws(t) :
            LET s == release_handler(St, t, letter_i, throw)
                by_point == t \in {LV_INDEV_TYPE_POINTER, LV_INDEV_TYPE_BUTTON}
            IN /\ pressed
               /\ Becomes(s)
               /\ revert_to' = RunStart(St)'
               /\ pressed' = FALSE
               /\ last_set' = IF by_point THEN -1 ELSE last_set
               /\ last' = Did("released", -1, FALSE, t, value_changed_id(s))
               /\ UNCHANGED table_vars
               /\ UNCHANGED options

\* LV_SIGNAL_FOCUS with an input device of type t acting; the history keeps a
\* focus that found the selection off the snapshot
SignalFocusFrom(t) ==
    /\ Becomes(signal_focus(St, t))
    /\ revert_to' = RunStart(St)'
    /\ last' = IF sel_opt_id # sel_opt_id_ori
               THEN Did("focus", -1, FALSE, t, -1) ELSE Other
    /\ UNCHANGED table_vars
    /\ UNCHANGED <<pressed, options, last_set>>

SignalFocus ==
    \E t \in IndevTypes : SignalFocusFrom(t)

\* the history keeps a defocus that found the selection off the snapshot
SignalDefocus ==
    /\ Becomes(signal_defocus(St))
    /\ revert_to' = RunStart(St)'
    /\ last' = IF sel_opt_id # sel_opt_id_ori
               THEN Did("defocus", -1, FALSE, "", -1) ELSE Other
    /\ UNCHANGED table_vars
    /\ UNCHANGED <<pressed, options, last_set>>

\* LV_SIGNAL_CONTROL with key c; the history keeps that a key moved the
\* selection
SignalControlKey(c) ==
    LET s == signal_control(St, c)
    IN /\ Becomes(s)
       /\ UNCHANGED revert_to
       /\ last_set' = IF s.sel_opt_id # sel_opt_id THEN -1 ELSE last_set
       /\ last' = IF s.sel_opt_id # sel_opt_id
                  THEN Did("control", -1, FALSE, "", -1) ELSE Other
       /\ UNCHANGED table_vars
       /\ UNCHANGED <<pressed, options>>

SignalControl ==
    \E c \in Keys : SignalControlKey(c)

(***************************************************************************)
(* Actions: the environment.                                               *)
(***************************************************************************)
\* the group enters or leaves editing
GroupSetEditing ==
    /\ editing' = ~editing
    /\ UNCHANGED revert_to
    /\ last' = Other
    /\ UNCHANGED table_vars
    /\ UNCHANGED <<mode, option_cnt, sel_opt_id, sel_opt_id_ori, moved, txt, label_y,
                   anim_act, anim_end, anims, anim_time, pressed, options, last_set>>

\* the animation moves the label on its way
AnimExec ==
    /\ anim_act
    /\ anim_exec(St).y # label_y
    /\ Becomes(anim_exec(St))
    /\ UNCHANGED revert_to
    /\ last' = Other
    /\ UNCHANGED table_vars
    /\ UNCHANGED <<pressed, options, last_set>>

\* the animation reaches its end value
AnimReady ==
    /\ anim_act
    /\ Becomes(scroll_anim_ready_cb(St))
    /\ UNCHANGED revert_to
    /\ last' = Other
    /\ UNCHANGED table_vars
    /\ UNCHANGED <<pressed, options, last_set>>

Next ==
    \/ SetOptions
    \/ SetSelected
    \/ SignalStyleChg
    \/ SignalCoordChg
    \/ SignalPressed
    \/ SignalPressing
    \/ SignalReleased
    \/ SignalFocus
    \/ SignalDefocus
    \/ SignalControl
    \/ GroupSetEditing
    \/ AnimExec
    \/ AnimReady

Spec == Init /\ [][Next]_vars

(***************************************************************************)
(* Actions: the public functions that change the table, and its signal.    *)
(* The getters are the operators lv_table_get_... of the current state.    *)
(***************************************************************************)
\* the greatest row and column a caller names, the greatest counts it sets,
\* and the number of cell buffers the heap has room for
MaxRow == 1
MaxCol == 1
MaxRowCnt == 2
MaxColCnt == 3
MaxCellBufs == 2

Rows == 0 .. MaxRow
Cols == 0 .. MaxCol

\* the texts a caller hands to lv_table_set_cell_value
CellTexts == {<<"a", "b">>}

\* the format and the argument a caller hands to lv_table_set_cell_value_fmt
CellFmts == {<<"n", "%", "d">>}
FmtArgs == {7}

\* the widths a caller hands to lv_table_set_col_width
ColWidths == {1, LV_DPI_DEF}

\* the number of cell buffers of t
BufCount(t) == Cardinality({i \in 1 .. Len(t.cell_data) : t.cell_data[i] # NULL})

\* the cell buffers a setter of a cell allocates on its way to t: the one of
\* a cell that had none (lv_mem_realloc of a buffer frees the one it replaces)
BufsAllocated(t) == BufCount(t) - BufCount(Tb)

\* the heap has room for the cell buffers a setter allocates on its way to t
Fits(t) == heap_bufs + BufsAllocated(t) <= MaxCellBufs

SetCellValue ==
    \E row \in Rows, col \in Cols, text \in CellTexts :
        LET t == lv_table_set_cell_value(Tb, row, col, text)
        IN /\ Fits(t)
           /\ TableBecomes(t)
           /\ heap_bufs' = heap_bufs + BufsAllocated(t)
           /\ table_last' = TableDid("set_cell_value", row, col, row_cnt, col_cnt)
           /\ UNCHANGED roller_vars

SetCellValueFmt ==
    \E row \in Rows, col \in Cols, fmt \in CellFmts, arg \in FmtArgs :
        LET t == lv_table_set_cell_value_fmt(Tb, row, col, fmt, arg)
        IN /\ Fits(t)
           /\ TableBecomes(t)
           /\ heap_bufs' = heap_bufs + BufsAllocated(t)
           /\ table_last' = TableOther
           /\ UNCHANGED roller_vars

SetRowCnt ==
    \E cnt \in 0 .. MaxRowCnt :
        /\ TableBecomes(lv_table_set_row_cnt(Tb, cnt))
        /\ table_last' = TableOther
        /\ UNCHANGED heap_bufs
        /\ UNCHANGED roller_vars

SetColCnt ==
    \E cnt \in 0 .. MaxColCnt :
        /\ TableBecomes(lv_table_set_col_cnt(Tb, cnt))
        /\ table_last' = TableDid("set_col_cnt", 0, cnt, 0, col_cnt)
        /\ UNCHANGED heap_bufs
        /\ UNCHANGED roller_vars

SetColWidth ==
    \E col \in Cols, w \in ColWidths :
        /\ TableBecomes(lv_table_set_col_width(Tb, col, w))
        /\ table_last' = TableOther
        /\ UNCHANGED heap_bufs
        /\ UNCHANGED roller_vars

SetCellCrop ==
    \E row \in Rows, col \in Cols, crop \in BOOLEAN :
        LET t == lv_table_set_cell_crop(Tb, row, col, crop)
        IN /\ Fits(t)
           /\ TableBecomes(t)
           /\ heap_bufs' = heap_bufs + BufsAllocated(t)
           /\ table_last' = TableOther
           /\ UNCHANGED roller_vars

SetCellMergeRight ==
    \E row \in Rows, col \in Cols, en \in BOOLEAN :
        LET t == lv_table_set_cell_merge_right(Tb, row, col, en)
        IN /\ Fits(t)
           /\ TableBecomes(t)
           /\ heap_bufs' = heap_bufs + BufsAllocated(t)
           /\ table_last' = TableOther
           /\ UNCHANGED roller_vars

\* LV_SIGNAL_STYLE_CHG
TableSignalStyleChg ==
    /\ TableBecomes(refr_size(Tb))
    /\ table_last' = TableOther
    /\ UNCHANGED heap_bufs
    /\ UNCHANGED roller_vars

TableNext ==
    \/ SetCellValue
    \/ SetCellValueFmt
    \/ SetRowCnt
    \/ SetColCnt
    \/ SetColWidth
    \/ SetCellCrop
    \/ SetCellMergeRight
    \/ TableSignalStyleChg

TableSpec == Init /\ [][TableNext]_vars

(***************************************************************************)
(* What the properties are stated with.                                    *)
(***************************************************************************)
\* number of options of a text: its '\n's, plus one
NumOptions(text) ==
    Cardinality({i \in 1 .. Len(text) : text[i] = NL}) + 1

\* the options of a text, in order
RECURSIVE SplitOptions(_)
SplitOptions(text) ==
    IF \A i \in 1 .. Len(text) : text[i] # NL
    THEN <<text>>
    ELSE LET i == CHOOSE k \in 1 .. Len(text) :
                      text[k] = NL /\ \A j \in 1 .. k - 1 : text[j] # NL
         IN <<SubSeq(text, 1, i - 1)>> \o SplitOptions(SubSeq(text, i + 1, Len(text)))

\* the first id of the middle page of a roller of real_cnt options
MiddlePage(real_cnt) == (LV_ROLLER_INF_PAGES \div 2) * real_cnt

(***************************************************************************)
(* Properties of the roller.                                               *)
(***************************************************************************)
\* C1: in every reachable state the stored selection is an id of the text,
\* 0 <= sel_opt_id < option_cnt, and lv_roller_get_selected is an id of the
\* options, 0 <= get_selected < get_option_cnt.
C1_SelectionInRange ==
    /\ 0 <= sel_opt_id
    /\ sel_opt_id < option_cnt
    /\ 0 <= lv_roller_get_selected(St)
    /\ lv_roller_get_selected(St) < lv_roller_get_option_cnt(St)

\* an id past the text was set in infinite mode and clamped to the last id
C1_Witness ==
    /\ mode = LV_ROLLER_MODE_INFINITE
    /\ last.op = "set_selected"
    /\ last.arg >= option_cnt
    /\ sel_opt_id = option_cnt - 1

\* C2: from lv_roller_set_selected(id, anim) with id < get_option_cnt until the
\* next operation that changes the selection, lv_roller_get_selected is id.
C2_RoundTrip ==
    last_set # -1 => lv_roller_get_selected(St) = last_set

\* an id set with animation in infinite mode, after the animation has ended
\* and the normalizer has moved the selection to the middle page
C2_Witness ==
    /\ mode = LV_ROLLER_MODE_INFINITE
    /\ last_set = 1
    /\ last.op = "other"
    /\ ~anim_act
    /\ sel_opt_id = MiddlePage(NumOptions(options)) + 1

\* C3: lv_roller_get_option_cnt is the number of '\n' of the text last set,
\* plus one; in infinite mode option_cnt is LV_ROLLER_INF_PAGES times that.
C3_OptionCount ==
    /\ lv_roller_get_option_cnt(St) = NumOptions(options)
    /\ mode = LV_ROLLER_MODE_INFINITE =>
           /\ option_cnt = NumOptions(options) * LV_ROLLER_INF_PAGES
           /\ option_cnt % LV_ROLLER_INF_PAGES = 0

\* a text of two options was set in infinite mode
C3_Witness ==
    /\ last.op = "set_options"
    /\ mode = LV_ROLLER_MODE_INFINITE
    /\ NumOptions(options) = 2
    /\ option_cnt = 2 * LV_ROLLER_INF_PAGES

\* C4: in normal mode lv_roller_set_selected(id, anim) stores
\* min(id, option_cnt - 1).
C4_NormalClamp ==
    (last.op = "set_selected" /\ mode = LV_ROLLER_MODE_NORMAL) =>
        sel_opt_id = Min(last.arg, option_cnt - 1)

\* an id past the last of the five options was set and the last is selected
C4_Witness ==
    /\ last.op = "set_selected"
    /\ mode = LV_ROLLER_MODE_NORMAL
    /\ option_cnt = 5
    /\ last.arg = 6
    /\ sel_opt_id = 4

\* C5: right after lv_roller_set_options(text, INFINITE) the selection is the
\* first option of the middle page, the snapshot equals it and
\* lv_roller_get_selected is 0.
C5_InfiniteStartsMiddle ==
    (last.op = "set_options" /\ mode = LV_ROLLER_MODE_INFINITE) =>
        /\ sel_opt_id = MiddlePage(NumOptions(options))
        /\ sel_opt_id_ori = sel_opt_id
        /\ lv_roller_get_selected(St) = 0

\* a text of two options was set in infinite mode; the selection is id 4
C5_Witness ==
    /\ last.op = "set_options"
    /\ mode = LV_ROLLER_MODE_INFINITE
    /\ NumOptions(options) = 2
    /\ sel_opt_id = 4

\* C6 as stated: in infinite mode lv_roller_get_selected is the stored
\* selection divided by LV_ROLLER_INF_PAGES, as lv_roller_get_option_cnt is the
\* stored count divided by LV_ROLLER_INF_PAGES.
C6_Original ==
    mode = LV_ROLLER_MODE_INFINITE =>
        /\ lv_roller_get_selected(St) = sel_opt_id \div LV_ROLLER_INF_PAGES
        /\ lv_roller_get_option_cnt(St) = option_cnt \div LV_ROLLER_INF_PAGES

\* C6: in infinite mode lv_roller_get_selected is the stored selection modulo
\* the number of options of the text last set: an id of these options that
\* differs from the stored selection by whole pages; lv_roller_get_option_cnt
\* is the stored count divided by LV_ROLLER_INF_PAGES.
C6_Amended ==
    mode = LV_ROLLER_MODE_INFINITE =>
        LET real_cnt == NumOptions(options)
            id == lv_roller_get_selected(St)
        IN /\ id \in 0 .. real_cnt - 1
           /\ (sel_opt_id - id) % real_cnt = 0
           /\ lv_roller_get_option_cnt(St) * LV_ROLLER_INF_PAGES = option_cnt

\* infinite mode, the second of two options selected on the fourth page: the
\* stored selection is 7, the quotient by LV_ROLLER_INF_PAGES is 1 and so is
\* lv_roller_get_selected, the remainder by the two options
C6_Witness ==
    /\ mode = LV_ROLLER_MODE_INFINITE
    /\ NumOptions(options) = 2
    /\ sel_opt_id = 7
    /\ lv_roller_get_selected(St) = 1
    /\ lv_roller_get_option_cnt(St) = 2

\* C7 as stated: in infinite mode lv_roller_set_selected(id, anim) with
\* id < get_option_cnt stores, before any normalization, the id at offset id of
\* the page the selection was on when the call was made.
C7_SamePage ==
    [][(/\ last'.op = "set_selected"
        /\ mode = LV_ROLLER_MODE_INFINITE
        /\ last'.arg < lv_roller_get_option_cnt(St))
       => LET real_cnt == lv_roller_get_option_cnt(St)
              page == sel_opt_id \div real_cnt
          IN store_selected(St, last'.arg).sel_opt_id = page * real_cnt + last'.arg]_vars

\* C8: after lv_roller_set_selected, in either mode and with or without
\* animation, the snapshot equals the selection.
C8_SnapshotEqualsSelection ==
    last.op = "set_selected" => sel_opt_id_ori = sel_opt_id

\* infinite mode, id 1 of two options set without animation: selection and
\* snapshot are both id 5, of the middle page
C8_Witness ==
    /\ last.op = "set_selected"
    /\ mode = LV_ROLLER_MODE_INFINITE
    /\ last.anim = LV_ANIM_OFF
    /\ last.arg = 1
    /\ sel_opt_id = 5
    /\ sel_opt_id_ori = 5

\* C9 as stated: the id release_handler sends with LV_EVENT_VALUE_CHANGED is
\* lv_roller_get_selected at that moment, an id below get_option_cnt, in both
\* modes.
C9_EventLogical ==
    last.op = "released" =>
        /\ last.ev = lv_roller_get_selected(St)
        /\ last.ev \in 0 .. lv_roller_get_option_cnt(St) - 1

\* C10: for every buf_size >= 1, lv_roller_get_selected_str writes the first
\* min(len, buf_size - 1) bytes of the option lv_roller_get_selected of the
\* text last set, then a NUL, and no more than buf_size bytes in all.
C10_SelectedStr ==
    \A buf_size \in 1 .. MaxBuf :
        LET line == SplitOptions(options)[lv_roller_get_selected(St) + 1]
            out == lv_roller_get_selected_str(St, buf_size)
        IN /\ out = SubSeq(line, 1, Min(Len(line), buf_size - 1)) \o <<NUL>>
           /\ Len(out) <= buf_size

\* infinite mode, the text "a", "b", "\n": the selection is id 4 of the
\* replicated text, the option "ab", and a buffer of two bytes gets "a" and NUL
C10_Witness ==
    /\ mode = LV_ROLLER_MODE_INFINITE
    /\ options = <<"a", "b", NL>>
    /\ sel_opt_id = 4
    /\ lv_roller_get_selected(St) = 0
    /\ lv_roller_get_selected_str(St, 2) = <<"a", NUL>>

\* C11: LV_SIGNAL_FOCUS from an encoder, the group not editing and the
\* selection off the snapshot, sets the selection to the snapshot, leaves the
\* snapshot as it was and refreshes the position with animation: an animation
\* towards the line of the snapshot, which with anim_time 0 is there at once.
C11_FocusEncoderReverts ==
    [][(/\ SignalFocusFrom(LV_INDEV_TYPE_ENCODER)
        /\ ~editing
        /\ sel_opt_id # sel_opt_id_ori)
       => /\ sel_opt_id' = sel_opt_id_ori
          /\ sel_opt_id_ori' = sel_opt_id_ori
          /\ IF anim_time # 0
             THEN anim_act' /\ anim_end' = target_y(sel_opt_id_ori)
             ELSE ~anim_act' /\ label_y' = target_y(sel_opt_id_ori)]_vars

\* infinite mode, the group not editing: an encoder's focus found the
\* selection off the snapshot, and the selection is the snapshot again with an
\* animation on its way
C11_Witness ==
    /\ last.op = "focus"
    /\ last.dev = LV_INDEV_TYPE_ENCODER
    /\ mode = LV_ROLLER_MODE_INFINITE
    /\ ~editing
    /\ sel_opt_id = sel_opt_id_ori
    /\ anim_act

\* C12 as stated: LV_SIGNAL_FOCUS from a keypad, the group not editing and the
\* selection off the snapshot, sets the selection to the snapshot and leaves
\* the snapshot as it was, as it does for an encoder.
C12_KeypadReverts ==
    [][(/\ SignalFocusFrom(LV_INDEV_TYPE_KEYPAD)
        /\ ~editing
        /\ sel_opt_id # sel_opt_id_ori)
       => /\ sel_opt_id' = sel_opt_id_ori
          /\ sel_opt_id_ori' = sel_opt_id_ori]_vars

\* C12: LV_SIGNAL_FOCUS from a device that is no encoder (keypad, pointer,
\* button), in either editing submode, reverts nothing: the selection, the
\* position and the animation stay as they were and the snapshot becomes the
\* selection.
C12_Amended ==
    [][\A t \in IndevTypes \ {LV_INDEV_TYPE_ENCODER} :
           SignalFocusFrom(t)
           => /\ sel_opt_id' = sel_opt_id
              /\ sel_opt_id_ori' = sel_opt_id
              /\ label_y' = label_y
              /\ anim_act' = anim_act
              /\ anim_end' = anim_end]_vars

\* the group not editing: a keypad's focus found the selection off the
\* snapshot, and the snapshot is now the selection, with the animation of the
\* key that moved the selection still on its way
C12_Witness ==
    /\ last.op = "focus"
    /\ last.dev = LV_INDEV_TYPE_KEYPAD
    /\ ~editing
    /\ sel_opt_id_ori = sel_opt_id
    /\ anim_act
    /\ anim_end = target_y(sel_opt_id)
    /\ label_y # anim_end

\* C13: after LV_SIGNAL_DEFOCUS, in either editing submode, the selection is
\* the snapshot of before the signal; where the two were equal already, no
\* field, position or animation changes.
C13_DefocusReverts ==
    [][SignalDefocus
       => /\ sel_opt_id' = sel_opt_id_ori
          /\ sel_opt_id = sel_opt_id_ori
             => UNCHANGED <<mode, option_cnt, sel_opt_id, sel_opt_id_ori, moved, txt,
                            label_y, anim_act, anim_end, anims, anim_time,
                            editing>>]_vars

\* the group editing: a defocus found the selection off the snapshot, and the
\* selection is the snapshot again with an animation on its way
C13_Witness ==
    /\ last.op = "defocus"
    /\ editing
    /\ sel_opt_id = sel_opt_id_ori
    /\ anim_act
    /\ anim_end = target_y(sel_opt_id_ori)

\* the directional keys, and the step each asks for
DirKeys == {LV_KEY_RIGHT, LV_KEY_DOWN, LV_KEY_LEFT, LV_KEY_UP}

KeyStep(c) == IF c \in {LV_KEY_RIGHT, LV_KEY_DOWN} THEN 1 ELSE -1

\* C14 as stated: a directional key changes sel_opt_id by exactly +1 or -1
\* where the result is in 0 .. option_cnt - 1 and leaves it unchanged
\* otherwise; the snapshot is after the key what it was before.
C14_ControlByOne ==
    \A c \in DirKeys :
        LET s == signal_control(St, c)
            id == sel_opt_id + KeyStep(c)
        IN /\ s.sel_opt_id = IF id \in 0 .. option_cnt - 1 THEN id ELSE sel_opt_id
           /\ s.sel_opt_id_ori = sel_opt_id_ori

\* C14: a directional key leaves sel_opt_id unchanged where sel_opt_id + 1
\* or - 1 is outside 0 .. option_cnt - 1; otherwise it stores that id, which
\* in infinite mode with anim_time 0 (the refresh is not animated) is at once
\* normalized to the id of the same option on the middle page; the snapshot is
\* after the key what it was before.
C14_Amended ==
    \A c \in DirKeys :
        LET s == signal_control(St, c)
            id == sel_opt_id + KeyStep(c)
            real_cnt == lv_roller_get_option_cnt(St)
        IN /\ s.sel_opt_id =
                  IF id \notin 0 .. option_cnt - 1 THEN sel_opt_id
                  ELSE IF mode = LV_ROLLER_MODE_INFINITE /\ anim_time = 0
                       THEN MiddlePage(real_cnt) + (id % real_cnt)
                       ELSE id
           /\ s.sel_opt_id_ori = sel_opt_id_ori

\* infinite mode with anim_time 0 and two options: a key moved the selection
\* off the middle page and the refresh brought it back, to id 4, while the
\* snapshot stayed 5
C14_Witness ==
    /\ last.op = "control"
    /\ mode = LV_ROLLER_MODE_INFINITE
    /\ anim_time = 0
    /\ NumOptions(options) = 2
    /\ sel_opt_id = 4
    /\ sel_opt_id_ori = 5
    /\ ~anim_act

\* C15 as stated: a run of directional keys, animation steps and animation
\* ends that began where the selection was the snapshot, at option
\* revert_to, and that no release, lv_roller_set_selected or focus has
\* committed, is undone by LV_SIGNAL_DEFOCUS: after it
\* lv_roller_get_selected is revert_to, in normal and in infinite mode.
C15_RunRevertible ==
    revert_to # -1 => lv_roller_get_selected(signal_defocus(St)) = revert_to

C17_NormalizeIdempotent ==
    LET once == inf_normalize(St)
        twice == inf_normalize(once)
    IN /\ twice.sel_opt_id = once.sel_opt_id
       /\ twice.sel_opt_id_ori = once.sel_opt_id_ori
       /\ twice.y = once.y

\* infinite mode, two options, selection 3 and snapshot 4: the first run moves
\* both to id 5, and so does a second
C17_Witness ==
    /\ mode = LV_ROLLER_MODE_INFINITE
    /\ sel_opt_id = 3
    /\ sel_opt_id_ori = 4
    /\ inf_normalize(St).sel_opt_id = 5
    /\ inf_normalize(St).sel_opt_id_ori = 5
    /\ inf_normalize(inf_normalize(St)).sel_opt_id = 5

(***************************************************************************)
(* The table.                                                              *)
(***************************************************************************)
\* the index of cell (row, col) in cell_data
CellIndex(t, row, col) == row * t.col_cnt + col

\* the entry of cell (row, col) in cell_data of t; NULL for a cell t has not
cell_data_at(t, row, col) ==
    IF row >= t.row_cnt \/ col >= t.col_cnt THEN NULL
    ELSE t.cell_data[row * t.col_cnt + col + 1]

\* C18: after every sequence of calls of the setters of the table, col_w has
\* col_cnt entries, row_h has row_cnt entries and cell_data has
\* row_cnt * col_cnt entries, and cell (row, col) is entry
\* row * col_cnt + col of cell_data: the entry is in the array, the getters
\* read it, and lv_table_set_cell_value writes it.
C18_TableStructure ==
    /\ Len(col_w) = col_cnt
    /\ Len(row_h) = row_cnt
    /\ Len(cell_data) = row_cnt * col_cnt
    /\ \A row \in 0 .. row_cnt - 1, col \in 0 .. col_cnt - 1 :
           LET cell == CellIndex(Tb, row, col)
           IN /\ cell < Len(cell_data)
              /\ lv_table_get_cell_value(Tb, row, col) = cell_data[cell + 1].txt
              /\ lv_table_get_cell_crop(Tb, row, col) = cell_data[cell + 1].crop
              /\ lv_table_get_cell_merge_right(Tb, row, col)
                     = cell_data[cell + 1].right_merge
              /\ \A text \in CellTexts :
                     LET t == lv_table_set_cell_value(Tb, row, col, text)
                     IN /\ t.cell_data[cell + 1].txt = text
                        /\ \A i \in 1 .. Len(cell_data) :
                               i # cell + 1 => t.cell_data[i] = cell_data[i]

\* a table of two rows and two columns whose only buffer is that of cell (1, 1)
C18_Witness ==
    /\ row_cnt = 2
    /\ col_cnt = 2
    /\ cell_data[CellIndex(Tb, 1, 1) + 1] # NULL
    /\ BufCount(Tb) = 1
    /\ Len(cell_data) = 4

\* cell (row, col) reads the same in tables t1 and t2: value, crop and merge
SameCell(t1, t2, row, col) ==
    /\ lv_table_get_cell_value(t1, row, col) = lv_table_get_cell_value(t2, row, col)
    /\ lv_table_get_cell_crop(t1, row, col) = lv_table_get_cell_crop(t2, row, col)
    /\ lv_table_get_cell_merge_right(t1, row, col)
           = lv_table_get_cell_merge_right(t2, row, col)

\* cell (row, col) of t is empty: no text, no buffer, and so no format flag
EmptyCell(t, row, col) ==
    /\ lv_table_get_cell_value(t, row, col) = <<>>
    /\ t.cell_data[CellIndex(t, row, col) + 1] = NULL
    /\ ~lv_table_get_cell_crop(t, row, col)
    /\ ~lv_table_get_cell_merge_right(t, row, col)

\* C19: lv_table_set_col_cnt from old_col_cnt to new_col_cnt columns keeps
\* value, crop and merge of every cell (r, c) with r < row_cnt and
\* c < min(old_col_cnt, new_col_cnt); every cell of a column it adds is empty
\* and every column it adds has the width LV_DPI_DEF.
C19_ColCntPreserves ==
    \A new_col_cnt \in 0 .. MaxColCnt :
        LET t == lv_table_set_col_cnt(Tb, new_col_cnt)
        IN /\ lv_table_get_col_cnt(t) = new_col_cnt
           /\ lv_table_get_row_cnt(t) = row_cnt
           /\ \A r \in 0 .. row_cnt - 1 :
                  /\ \A c \in 0 .. Min(col_cnt, new_col_cnt) - 1 : SameCell(Tb, t, r, c)
                  /\ \A c \in col_cnt .. new_col_cnt - 1 : EmptyCell(t, r, c)
           /\ \A c \in col_cnt .. new_col_cnt - 1 :
                  lv_table_get_col_width(t, c) = LV_DPI_DEF

\* lv_table_set_col_cnt has given a table of two rows a second column, and
\* cell (1, 0) has a buffer with a text
C19_Witness ==
    /\ table_last.op = "set_col_cnt"
    /\ table_last.old_col_cnt = 1
    /\ col_cnt = 2
    /\ row_cnt = 2
    /\ lv_table_get_cell_value(Tb, 1, 0) # <<>>
    /\ EmptyCell(Tb, 1, 1)

\* C20: lv_table_set_cell_value(row, col, text) expands the grid to hold the
\* cell: afterwards col_cnt is max(old col_cnt, col + 1), row_cnt is
\* max(old row_cnt, row + 1) and lv_table_get_cell_value(row, col) is text,
\* and every other cell the table had keeps its value and its format flags.
C20_SetCellValueExpands ==
    \A row \in Rows, col \in Cols, text \in CellTexts :
        LET t == lv_table_set_cell_value(Tb, row, col, text)
        IN /\ lv_table_get_col_cnt(t) = Max(col_cnt, col + 1)
           /\ lv_table_get_row_cnt(t) = Max(row_cnt, row + 1)
           /\ lv_table_get_cell_value(t, row, col) = text
           /\ \A r \in 0 .. row_cnt - 1, c \in 0 .. col_cnt - 1 :
                  <<r, c>> # <<row, col>> => SameCell(Tb, t, r, c)

\* lv_table_set_cell_value(1, 1, text) has expanded a table of one row and one
\* column whose cell (0, 0) has a text
C20_Witness ==
    /\ table_last = TableDid("set_cell_value", 1, 1, 1, 1)
    /\ row_cnt = 2
    /\ col_cnt = 2
    /\ lv_table_get_cell_value(Tb, 1, 1) \in CellTexts
    /\ lv_table_get_cell_value(Tb, 0, 0) # <<>>

\* C21: lv_table_set_cell_value_fmt(row, col, fmt, ...) expands the grid as
\* lv_table_set_cell_value does: afterwards col_cnt is
\* max(old col_cnt, col + 1), row_cnt is max(old row_cnt, row + 1) and cell
\* (row, col) holds the formatted text.
C21_FmtExpands ==
    \A row \in Rows, col \in Cols, fmt \in CellFmts, arg \in FmtArgs :
        LET t == lv_table_set_cell_value_fmt(Tb, row, col, fmt, arg)
        IN /\ lv_table_get_col_cnt(t) = Max(col_cnt, col + 1)
           /\ lv_table_get_row_cnt(t) = Max(row_cnt, row + 1)
           /\ lv_table_get_cell_value(t, row, col) = lv_vsnprintf(fmt, 1, arg)

\* cell (row, col) has the same format flags in tables t1 and t2
SameFormat(t1, t2, row, col) ==
    /\ lv_table_get_cell_crop(t1, row, col) = lv_table_get_cell_crop(t2, row, col)
    /\ lv_table_get_cell_merge_right(t1, row, col)
           = lv_table_get_cell_merge_right(t2, row, col)

\* C22: lv_table_set_cell_value and lv_table_set_cell_value_fmt keep the
\* format byte of the cell they write: lv_table_get_cell_crop and
\* lv_table_get_cell_merge_right of the cell return the same after the write
\* as before, which for a cell written for the first time is false and false.
C22_WriteKeepsFormat ==
    \A row \in Rows, col \in Cols :
        /\ \A text \in CellTexts :
               LET t == lv_table_set_cell_value(Tb, row, col, text)
               IN /\ SameFormat(Tb, t, row, col)
                  /\ lv_table_get_cell_value(t, row, col) = text
                  /\ cell_data_at(Tb, row, col) = NULL
                     => /\ ~lv_table_get_cell_crop(t, row, col)
                        /\ ~lv_table_get_cell_merge_right(t, row, col)
        /\ \A fmt \in CellFmts, arg \in FmtArgs :
               LET t == lv_table_set_cell_value_fmt(Tb, row, col, fmt, arg)
               IN /\ SameFormat(Tb, t, row, col)
                  /\ col < col_cnt
                     => lv_table_get_cell_value(t, row, col) = lv_vsnprintf(fmt, 1, arg)
                  /\ cell_data_at(Tb, row, col) = NULL
                     => /\ ~lv_table_get_cell_crop(t, row, col)
                        /\ ~lv_table_get_cell_merge_right(t, row, col)

\* lv_table_set_cell_value has written a text to cell (0, 0), which had and
\* has crop and right merge set
C22_Witness ==
    /\ table_last = TableDid("set_cell_value", 0, 0, 1, 2)
    /\ lv_table_get_cell_value(Tb, 0, 0) \in CellTexts
    /\ lv_table_get_cell_crop(Tb, 0, 0)
    /\ lv_table_get_cell_merge_right(Tb, 0, 0)

\* C23: lv_table_set_cell_crop(row, col, v) and
\* lv_table_set_cell_merge_right(row, col, v) give a cell without buffer a
\* buffer with the empty text; after either call the getter of the flag
\* returns v, and the other flag and the text of the cell are as before.
C23_FlagSetters ==
    \A row \in Rows, col \in Cols, v \in BOOLEAN :
        /\ LET t == lv_table_set_cell_crop(Tb, row, col, v)
           IN /\ lv_table_get_cell_crop(t, row, col) = v
              /\ lv_table_get_cell_merge_right(t, row, col)
                     = lv_table_get_cell_merge_right(Tb, row, col)
              /\ lv_table_get_cell_value(t, row, col)
                     = lv_table_get_cell_value(Tb, row, col)
              /\ cell_data_at(t, row, col) # NULL
              /\ cell_data_at(Tb, row, col) = NULL
                 => cell_data_at(t, row, col) = CellBuf(v, FALSE, <<>>)
        /\ LET t == lv_table_set_cell_merge_right(Tb, row, col, v)
           IN /\ lv_table_get_cell_merge_right(t, row, col) = v
              /\ lv_table_get_cell_crop(t, row, col)
                     = lv_table_get_cell_crop(Tb, row, col)
              /\ lv_table_get_cell_value(t, row, col)
                     = lv_table_get_cell_value(Tb, row, col)
              /\ cell_data_at(t, row, col) # NULL
              /\ cell_data_at(Tb, row, col) = NULL
                 => cell_data_at(t, row, col) = CellBuf(FALSE, v, <<>>)

\* two cells that were given their buffers by the setters of the flags: the
\* empty text, and crop set in cell (1, 1), right merge set in cell (1, 0)
C23_Witness ==
    /\ cell_data_at(Tb, 1, 1) = CellBuf(TRUE, FALSE, <<>>)
    /\ cell_data_at(Tb, 1, 0) = CellBuf(FALSE, TRUE, <<>>)

\* the rows and columns a caller of a getter names: those of the table and
\* those past them
GetRows == 0 .. MaxRowCnt
GetCols == 0 .. MaxColCnt

\* the getters of a cell return their defaults at (row, col) of t
ReadsDefault(t, row, col) ==
    /\ lv_table_get_cell_value(t, row, col) = <<>>
    /\ ~lv_table_get_cell_crop(t, row, col)
    /\ ~lv_table_get_cell_merge_right(t, row, col)

\* C24: the getters are total: with row >= row_cnt or col >= col_cnt they
\* return the empty string, false, false and the width 0, and for a cell of the
\* table that was never written they return the empty string, false, false
\* and the default column width.
C24_ReadDefaults ==
    \A row \in GetRows, col \in GetCols :
        /\ row >= row_cnt \/ col >= col_cnt => ReadsDefault(Tb, row, col)
        /\ col >= col_cnt => lv_table_get_col_width(Tb, col) = 0
        /\ row < row_cnt /\ col < col_cnt /\ cell_data_at(Tb, row, col) = NULL
           => /\ ReadsDefault(Tb, row, col)
              /\ lv_table_get_col_width(Tb, col) = LV_DPI_DEF

\* C24, amended: the getters are total: with row >= row_cnt or col >= col_cnt
\* they return the empty string, false, false and the width 0, and for a cell
\* of the table without buffer the empty string, false and false.  The width
\* of a column of the table does not depend on its cells: it is the width
\* last given to the column, LV_DPI_DEF by lv_table_set_col_cnt when it adds
\* the column and w by lv_table_set_col_width(col, w).
C24_Amended ==
    \A row \in GetRows, col \in GetCols :
        /\ row >= row_cnt \/ col >= col_cnt => ReadsDefault(Tb, row, col)
        /\ col >= col_cnt => lv_table_get_col_width(Tb, col) = 0
        /\ row < row_cnt /\ col < col_cnt /\ cell_data_at(Tb, row, col) = NULL
           => ReadsDefault(Tb, row, col)
        /\ col < col_cnt => lv_table_get_col_width(Tb, col) = col_w[col + 1]
        /\ \A cnt \in 0 .. MaxColCnt :
               col_cnt <= col /\ col < cnt
               => lv_table_get_col_width(lv_table_set_col_cnt(Tb, cnt), col) = LV_DPI_DEF
        /\ \A w \in ColWidths :
               col \in Cols
               => lv_table_get_col_width(lv_table_set_col_width(Tb, col, w), col) = w

\* a table of one row and one column whose cell was never written and whose
\* column was given a width other than the default
C24_Witness ==
    /\ row_cnt = 1
    /\ col_cnt = 1
    /\ cell_data = <<NULL>>
    /\ lv_table_get_col_width(Tb, 0) # LV_DPI_DEF
    /\ lv_table_get_col_width(Tb, 1) = 0

\* the coordinates of the acting input device, relative to the first cell:
\* before the table, in it, and past it
PressCoords == -1 .. 7

\* the sum of the first n entries of sizes
RECURSIVE SumTo(_, _)
SumTo(sizes, n) == IF n = 0 THEN 0 ELSE SumTo(sizes, n - 1) + sizes[n]

\* the point (x, y) lies in cell (row, col) of t
InCell(t, x, y, row, col) ==
    /\ row < t.row_cnt
    /\ col < t.col_cnt
    /\ SumTo(t.col_w, col) <= x
    /\ x < SumTo(t.col_w, col + 1)
    /\ SumTo(t.row_h, row) <= y
    /\ y < SumTo(t.row_h, row + 1)

\* C25: whenever lv_table_get_pressed_cell returns LV_RES_OK, the cell it
\* reports is one of the table, row < row_cnt and col < col_cnt, and the point
\* lies in the span of its column and of its row; for a point outside all
\* cells, and for a device that is neither pointer nor button, it reports no
\* valid cell.
C25_PressedCellValid ==
    \A type \in IndevTypes, x \in PressCoords, y \in PressCoords :
        LET r == lv_table_get_pressed_cell(Tb, type, x, y)
            outside == \A row \in 0 .. row_cnt - 1, col \in 0 .. col_cnt - 1 :
                           ~InCell(Tb, x, y, row, col)
        IN /\ r.res = LV_RES_OK => InCell(Tb, x, y, r.row, r.col)
           /\ outside \/ type \notin {LV_INDEV_TYPE_POINTER, LV_INDEV_TYPE_BUTTON}
              => r.res = LV_RES_INV

\* the height of one line of text with the vertical paddings of a cell
OneLineHeight == font_h + cell_top + cell_bottom

\* the greatest element of a set of numbers
SetMax(S) == CHOOSE m \in S : \A x \in S : x <= m

\* the width the text of cell (row, col) of t is measured at: the width of its
\* column and of the columns merged to its right, less the paddings
EffectiveWidth(t, row, col) ==
    merged_w(t, col, merge_count(t, CellIndex(t, row, col), col, 0))
        - (cell_left + cell_right)

\* what cell (row, col) of t, a cell with a buffer, needs of the height of its
\* row: one line where it is cropped, its wrapped text where it is not
CellHeight(t, row, col) ==
    LET c == cell_data_at(t, row, col)
    IN IF c.crop THEN OneLineHeight
       ELSE txt_size_y(c.txt, EffectiveWidth(t, row, col)) + cell_top + cell_bottom

\* the columns of row whose cells have a buffer
BufCols(t, row) ==
    {col \in 0 .. t.col_cnt - 1 : cell_data_at(t, row, col) # NULL}

\* the columns of row whose cells are absorbed by the merge chain of a cell
\* to their left that is not cropped and not itself absorbed
RECURSIVE AbsorbedFrom(_, _, _)
AbsorbedFrom(t, row, col) ==
    IF col >= t.col_cnt THEN {}
    ELSE LET c == cell_data_at(t, row, col)
             n == IF c # NULL /\ ~c.crop
                  THEN merge_count(t, CellIndex(t, row, col), col, 0) ELSE 0
         IN (col + 1 .. col + n) \cup AbsorbedFrom(t, row, col + n + 1)

\* C26: the height of a row is the greatest of what its cells need, one line
\* and the vertical paddings for a cropped cell and the wrapped text at the
\* effective width of the cell and the vertical paddings for a cell that is
\* not cropped, and is at least one line and the vertical paddings.
C26_RowHeightMax ==
    \A row \in 0 .. row_cnt - 1 :
        /\ get_row_height(Tb, row)
               = SetMax({OneLineHeight}
                        \cup {CellHeight(Tb, row, col) : col \in BufCols(Tb, row)})
        /\ get_row_height(Tb, row) >= OneLineHeight

\* C26, amended: the height of a row is the greatest of what its cells need,
\* but for the cells absorbed by the merge chain of a cell to their left that
\* is not cropped: one line and the vertical paddings for a cropped cell and
\* the wrapped text at the effective width of the cell and the vertical
\* paddings for a cell that is not cropped; it is at least one line and the
\* vertical paddings.
C26_Amended ==
    \A row \in 0 .. row_cnt - 1 :
        /\ get_row_height(Tb, row)
               = SetMax({OneLineHeight}
                        \cup {CellHeight(Tb, row, col) :
                                 col \in BufCols(Tb, row) \ AbsorbedFrom(Tb, row, 0)})
        /\ get_row_height(Tb, row) >= OneLineHeight

\* row 0 holds a cropped cell and a cell that is not cropped and whose text
\* wraps into two lines, and has the height of the two lines
C26_Witness ==
    /\ col_cnt = 2
    /\ row_cnt >= 1
    /\ cell_data_at(Tb, 0, 0) # NULL
    /\ cell_data_at(Tb, 0, 0).crop
    /\ cell_data_at(Tb, 0, 1) = CellBuf(FALSE, FALSE, <<"a", "b">>)
    /\ col_w[2] = 1
    /\ row_h[1] = 2 * font_h + line_space + cell_top + cell_bottom
    /\ row_h[1] > OneLineHeight

\* cell (row, col) of t is merged with its right neighbour: it has a buffer
\* with right merge set and is not in the last column
MergesRight(t, row, col) ==
    /\ col < t.col_cnt - 1
    /\ cell_data_at(t, row, col) # NULL
    /\ cell_data_at(t, row, col).right_merge

\* the number of columns that follow col in the merge chain of cell
\* (row, col) of t
ChainLen(t, row, col) ==
    SetMax({n \in 0 .. t.col_cnt :
               \A k \in 0 .. n - 1 : MergesRight(t, row, col + k)})

\* C27: the width the text of a cell (row, col) with a buffer is measured at
\* is col_w[col] and the widths of the columns that follow it in its merge
\* chain; the chain ends at the first cell that is not right-merged or has
\* no buffer, or at the last column, so that a cell whose right neighbour
\* ends the chain is measured at col_w[col] + col_w[col + 1].
C27_MergeChainWidth ==
    \A row \in 0 .. row_cnt - 1 :
        \A col \in BufCols(Tb, row) :
            LET col_merge == merge_count(Tb, CellIndex(Tb, row, col), col, 0)
                txt_w == merged_w(Tb, col, col_merge)
            IN /\ col_merge = ChainLen(Tb, row, col)
               /\ txt_w = SumTo(col_w, col + col_merge + 1) - SumTo(col_w, col)
               /\ MergesRight(Tb, row, col) /\ ~MergesRight(Tb, row, col + 1)
                  => txt_w = col_w[col + 1] + col_w[col + 2]
               /\ ~MergesRight(Tb, row, col) => txt_w = col_w[col + 1]

\* a table of three columns with a merge chain from cell (0, 0) over cell
\* (0, 1) to the last column, with a narrow column in it, and the row height
\* of a text that fits into the merged width
C27_Witness ==
    /\ col_cnt = 3
    /\ MergesRight(Tb, 0, 0)
    /\ MergesRight(Tb, 0, 1)
    /\ ChainLen(Tb, 0, 0) = 2
    /\ col_w[1] = 1
    /\ ~cell_data_at(Tb, 0, 0).crop
    /\ cell_data_at(Tb, 0, 0).txt = <<"a", "b">>
    /\ row_h[1] = OneLineHeight

\* C28: where the allocation of the cell buffer fails in
\* lv_table_set_cell_value, lv_table_set_cell_value_fmt, lv_table_set_cell_crop
\* or lv_table_set_cell_merge_right, the call is given up and the getters
\* return the text and the format flags of the cell as before the call.
C28_AllocFailureKeeps ==
    \A row \in Rows, col \in Cols :
        /\ \A text \in CellTexts :
               SameCell(Tb, lv_table_set_cell_value_nomem(Tb, row, col, text), row, col)
        /\ \A fmt \in CellFmts, arg \in FmtArgs :
               SameCell(Tb, lv_table_set_cell_value_fmt_nomem(Tb, row, col, fmt, arg),
                        row, col)
        /\ \A v \in BOOLEAN :
               /\ cell_data_at(Tb, row, col) = NULL
                  => SameCell(Tb, lv_table_set_cell_crop_nomem(Tb, row, col, v), row, col)
               /\ cell_data_at(Tb, row, col) = NULL
                  => SameCell(Tb, lv_table_set_cell_merge_right_nomem(Tb, row, col, v),
                              row, col)

\* the heap blocks of the table: the number of cell buffers allocated and not
\* freed, and whether the three arrays are allocated
TableHeap ==
    [cell_bufs |-> heap_bufs, cell_data |-> Len(cell_data) > 0,
     row_h |-> Len(row_h) > 0, col_w |-> Len(col_w) > 0]

\* every cell buffer allocated and not freed is the buffer of a cell
BufsReferenced == heap_bufs = BufCount(Tb)

\* the destructor leaves no block of the table allocated
DestroyFreesAll ==
    lv_table_destructor(TableHeap)
        = [cell_bufs |-> 0, cell_data |-> FALSE, row_h |-> FALSE, col_w |-> FALSE]

\* C29: no cell buffer is leaked: after every sequence of cell writes and
\* changes of the row and column count, every cell buffer allocated is the
\* buffer of one cell or has been freed, and after the table is destroyed no
\* cell buffer and none of cell_data, row_h and col_w remains allocated.
C29_NoLeak ==
    /\ BufsReferenced
    /\ DestroyFreesAll

\* state s is as a refresh without animation leaves it: the normalizer has
\* run (in infinite mode the selection is in the middle page), no animation of
\* the label is pending, and the label is at the offset of the selection
Refreshed(s) ==
    /\ s.mode = LV_ROLLER_MODE_INFINITE
       => LET real_cnt == s.option_cnt \div LV_ROLLER_INF_PAGES
          IN /\ MiddlePage(real_cnt) <= s.sel_opt_id
             /\ s.sel_opt_id < MiddlePage(real_cnt) + real_cnt
    /\ ~s.anim_act
    /\ s.y = roller_h \div 2 - font_h \div 2 - s.sel_opt_id * (font_h + line_space)

\* C30: a position refresh asked for without animation, or with the animation
\* time 0, has on return run the normalizer, left no animation of the label
\* pending and put the label at
\* h / 2 - font_h / 2 - sel_opt_id * (font_h + line_space) of the selection it
\* leaves: for refr_position called in any state, and for the state
\* lv_roller_set_selected leaves.
C30_RefreshNow ==
    /\ \A anim_en \in {LV_ANIM_OFF, LV_ANIM_ON} :
           anim_en = LV_ANIM_OFF \/ anim_time = 0
           => LET s == refr_position(St, anim_en)
              IN /\ Refreshed(s)
                 /\ mode = LV_ROLLER_MODE_NORMAL => s.sel_opt_id = sel_opt_id
                 /\ lv_roller_get_selected(s) = lv_roller_get_selected(St)
    /\ last.op = "set_selected" /\ (last.anim = LV_ANIM_OFF \/ anim_time = 0)
       => Refreshed(St)

\* lv_roller_set_selected with animation asked for and the animation time 0 has
\* stored an id of the first page of an infinite roller, and the refresh has
\* moved it to the middle page
C30_Witness ==
    /\ last.op = "set_selected"
    /\ last.anim = LV_ANIM_ON
    /\ anim_time = 0
    /\ mode = LV_ROLLER_MODE_INFINITE
    /\ last.arg < option_cnt \div LV_ROLLER_INF_PAGES
    /\ sel_opt_id = MiddlePage(option_cnt \div LV_ROLLER_INF_PAGES) + last.arg
    /\ ~anim_act

\* the offset of the label that shows option id in the middle of the roller
Offset(id) == roller_h \div 2 - font_h \div 2 - id * (font_h + line_space)

\* id is in the middle page of the infinite roller s
InMiddlePage(s, id) ==
    LET real_cnt == s.option_cnt \div LV_ROLLER_INF_PAGES
    IN MiddlePage(real_cnt) <= id /\ id < MiddlePage(real_cnt) + real_cnt

\* C31: a position refresh asked for with animation and an animation time
\* other than 0 does not run the normalizer and does not move the label: the
\* selection keeps the id that was set, and an animation is started from the
\* offset the label has to the offset of that id; the steps of the animation
\* change neither selection nor snapshot, and the normalizer runs when the
\* animation completes.
C31_RefreshAnimated ==
    /\ anim_time # 0
       => /\ LET s == refr_position(St, LV_ANIM_ON)
             IN /\ s.sel_opt_id = sel_opt_id
                /\ s.sel_opt_id_ori = sel_opt_id_ori
                /\ s.y = label_y
                /\ s.anim_act
                /\ s.anim_end = Offset(sel_opt_id)
          /\ \A sel_opt \in SelOpts :
                 LET s == lv_roller_set_selected(St, sel_opt, LV_ANIM_ON)
                 IN /\ s.sel_opt_id = store_selected(St, sel_opt).sel_opt_id
                    /\ s.y = label_y
                    /\ s.anim_act
                    /\ s.anim_end = Offset(s.sel_opt_id)
    /\ anim_act
       => /\ LET s == anim_exec(St)
             IN /\ s.sel_opt_id = sel_opt_id
                /\ s.sel_opt_id_ori = sel_opt_id_ori
                /\ s.anim_act
                /\ s.anim_end = anim_end
                /\ \/ label_y <= s.y /\ s.y <= anim_end
                   \/ anim_end <= s.y /\ s.y <= label_y
          /\ LET s == scroll_anim_ready_cb(St)
             IN /\ ~s.anim_act
                /\ s = inf_normalize([St EXCEPT !.y = anim_end, !.anim_act = FALSE,
                                                !.anim_end = 0,
                                                !.anims = Tail(anims)])
                /\ mode = LV_ROLLER_MODE_INFINITE
                   => /\ InMiddlePage(s, s.sel_opt_id)
                      /\ lv_roller_get_selected(s) = lv_roller_get_selected(St)
                      /\ s.y = Offset(s.sel_opt_id)
                /\ mode = LV_ROLLER_MODE_NORMAL
                   => s.sel_opt_id = sel_opt_id /\ s.y = anim_end

\* lv_roller_set_selected with animation has stored an id of the first page
\* of an infinite roller: the animation is in flight, the selection is not
\* normalized and the label is not at the offset of the selection
C31_Witness ==
    /\ last.op = "set_selected"
    /\ last.anim = LV_ANIM_ON
    /\ anim_time # 0
    /\ mode = LV_ROLLER_MODE_INFINITE
    /\ anim_act
    /\ sel_opt_id = last.arg
    /\ ~InMiddlePage(St, sel_opt_id)
    /\ label_y # anim_end
    /\ anim_end = Offset(sel_opt_id)

\* C32: in infinite mode the normalizer leaves the selection at
\* (old sel_opt_id mod real_id_cnt) + (LV_ROLLER_INF_PAGES / 2) * real_id_cnt
\* with real_id_cnt = option_cnt / LV_ROLLER_INF_PAGES, which is the id of the
\* middle page with the same logical index, and the label at the offset of
\* that id, and it starts no animation; in normal mode it changes nothing.
C32_Normalize ==
    LET s == inf_normalize(St)
        real_id_cnt == option_cnt \div LV_ROLLER_INF_PAGES
    IN /\ mode = LV_ROLLER_MODE_INFINITE
          => /\ real_id_cnt > 0
             /\ s.sel_opt_id = (sel_opt_id % real_id_cnt)
                                   + (LV_ROLLER_INF_PAGES \div 2) * real_id_cnt
             /\ InMiddlePage(s, s.sel_opt_id)
             /\ s.sel_opt_id % real_id_cnt = sel_opt_id % real_id_cnt
             /\ s.y = Offset(s.sel_opt_id)
             /\ s.anim_act = anim_act
             /\ s.anim_end = anim_end
             /\ s.option_cnt = option_cnt /\ s.txt = txt /\ s.mode = mode
       /\ mode = LV_ROLLER_MODE_NORMAL => s = St

\* an infinite roller whose selection is outside the middle page and whose
\* label is on the way to the offset of that selection: the normalizer has a
\* selection to move and a label to place
C32_Witness ==
    /\ mode = LV_ROLLER_MODE_INFINITE
    /\ sel_opt_id < MiddlePage(option_cnt \div LV_ROLLER_INF_PAGES)
    /\ anim_act
    /\ label_y # Offset(sel_opt_id)
    /\ label_y # Offset(inf_normalize(St).sel_opt_id)
    /\ inf_normalize(St).sel_opt_id # sel_opt_id

\* C33 (does not hold): the normalizer leaves the snapshot sel_opt_id_ori in the
\* middle page with the logical index the snapshot had before the call,
\* whatever the selection is; stated for the call that ends an animation.
C33_SnapshotRecentered ==
    (anim_act /\ mode = LV_ROLLER_MODE_INFINITE)
    => LET s == scroll_anim_ready_cb(St)
           real_id_cnt == option_cnt \div LV_ROLLER_INF_PAGES
       IN /\ InMiddlePage(s, s.sel_opt_id_ori)
          /\ s.sel_opt_id_ori % real_id_cnt = sel_opt_id_ori % real_id_cnt

\* C34: lv_anim holds at most one animation for the roller, the lv_obj_set_y
\* animation of the label with scroll_anim_ready_cb; a refresh with
\* animation leaves its new animation alone in the list, whatever was in
\* flight, a press and a refresh without animation leave none, and none is
\* left when the ready callback has run, so that the ready callback of a
\* replaced or deleted animation is not called.
C34_OneAnimation ==
    /\ Len(anims) <= 1
    /\ anim_act <=> anims # <<>>
    /\ anim_act => anims = <<scroll_anim(anim_end)>>
    /\ anim_time # 0
       => /\ refr_position(St, LV_ANIM_ON).anims = <<scroll_anim(Offset(sel_opt_id))>>
          /\ \A sel_opt \in SelOpts :
                 LET s == lv_roller_set_selected(St, sel_opt, LV_ANIM_ON)
                 IN s.anims = <<scroll_anim(Offset(s.sel_opt_id))>>
    /\ refr_position(St, LV_ANIM_OFF).anims = <<>>
    /\ signal_pressed(St).anims = <<>>
    /\ anim_act => scroll_anim_ready_cb(St).anims = <<>>

\* an animation is in flight and lv_roller_set_selected with animation of
\* some option starts one to another offset
C34_Witness ==
    /\ anim_act
    /\ anim_time # 0
    /\ label_y # anim_end
    /\ \E sel_opt \in SelOpts :
           LET s == lv_roller_set_selected(St, sel_opt, LV_ANIM_ON)
           IN s.anim_end # anim_end /\ s.anims = <<scroll_anim(s.anim_end)>>

\* C35 (does not hold): in infinite mode, with no scroll animation pending and
\* no press in progress, sel_opt_id lies in the middle page.
C35_Recentered ==
    (mode = LV_ROLLER_MODE_INFINITE /\ ~anim_act /\ ~pressed)
    => InMiddlePage(St, sel_opt_id)

\* the stored height of every row of t is the height get_row_height computes
RowHeightsUpToDate(t) ==
    \A row \in 0 .. t.row_cnt - 1 : t.row_h[row + 1] = get_row_height(t, row)

\* C36 (does not hold): when lv_table_set_row_cnt, lv_table_set_col_cnt,
\* lv_table_set_col_width, lv_table_set_cell_value, lv_table_set_cell_value_fmt,
\* lv_table_set_cell_crop or lv_table_set_cell_merge_right returns, the stored
\* height of every row is the height computed from the cells, their format
\* flags and the column widths; stated for calls on a table whose row heights
\* were up to date.
C36_RowHeightsRefreshed ==
    RowHeightsUpToDate(Tb)
    => /\ \A cnt \in 0 .. MaxRowCnt : RowHeightsUpToDate(lv_table_set_row_cnt(Tb, cnt))
       /\ \A cnt \in 0 .. MaxColCnt : RowHeightsUpToDate(lv_table_set_col_cnt(Tb, cnt))
       /\ \A col \in Cols, w \in ColWidths :
              RowHeightsUpToDate(lv_table_set_col_width(Tb, col, w))
       /\ \A row \in Rows, col \in Cols :
              /\ \A text \in CellTexts :
                     RowHeightsUpToDate(lv_table_set_cell_value(Tb, row, col, text))
              /\ \A fmt \in CellFmts, arg \in FmtArgs :
                     RowHeightsUpToDate(lv_table_set_cell_value_fmt(Tb, row, col, fmt, arg))
              /\ \A en \in BOOLEAN :
                     RowHeightsUpToDate(lv_table_set_cell_merge_right(Tb, row, col, en))
              /\ \A crop \in BOOLEAN :
                     RowHeightsUpToDate(lv_table_set_cell_crop(Tb, row, col, crop))

\* the columns of row, from col on, whose cells are absorbed by the merge
\* chain of a cell to their left that is not itself absorbed, cropped or not
RECURSIVE Absorbed(_, _, _)
Absorbed(t, row, col) ==
    IF col >= t.col_cnt THEN {}
    ELSE LET c == cell_data_at(t, row, col)
             n == IF c # NULL THEN merge_count(t, CellIndex(t, row, col), col, 0) ELSE 0
         IN (col + 1 .. col + n) \cup Absorbed(t, row, col + n + 1)

\* t with the texts of the absorbed cells of row emptied
WithoutAbsorbedText(t, row) ==
    [t EXCEPT !.cell_data =
        [i \in 1 .. Len(t.cell_data) |->
            IF /\ t.cell_data[i] # NULL
               /\ \E col \in Absorbed(t, row, 0) : i = CellIndex(t, row, col) + 1
            THEN [t.cell_data[i] EXCEPT !.txt = <<>>]
            ELSE t.cell_data[i]]]

\* C37 (does not hold): the text of a cell absorbed by the merge chain of a
\* cell to its left does not contribute to the height of the row, whether the
\* first cell of the chain is cropped or not: the height is what it is with
\* the texts of the absorbed cells emptied.
C37_AbsorbedTextIgnored ==
    \A row \in 0 .. row_cnt - 1 :
        get_row_height(Tb, row) = get_row_height(WithoutAbsorbedText(Tb, row), row)

\* the clip areas the table is drawn with: all of it, the part below its first
\* row, its first row alone, and an area beside it
ClipAreas(t) ==
    LET all == [x1 |-> 0, x2 |-> 1000, y1 |-> 0, y2 |-> 1000]
        h0 == IF t.row_cnt > 0 THEN t.row_h[1] ELSE 0
    IN {all, [all EXCEPT !.y1 = h0], [all EXCEPT !.y2 = h0 - 1], [all EXCEPT !.x1 = 1000]}

\* the indices of the cells of t that no merge chain of a cell to their left
\* absorbs
ChainHeads(t) ==
    UNION {{CellIndex(t, row, col) : col \in (0 .. t.col_cnt - 1) \ Absorbed(t, row, 0)} :
           row \in 0 .. t.row_cnt - 1}

\* the begin and end events of a draw pass, in order
PartEvents(out) ==
    SelectSeq(out, LAMBDA e : e.ev \in {"LV_EVENT_DRAW_PART_BEGIN",
                                        "LV_EVENT_DRAW_PART_END"})

\* C38: in the main draw pass the begin and end events alternate, each begin
\* followed by the end with its id before the next begin; the ids increase in
\* row-major order; each id is row * col_cnt + col of a cell no merge chain
\* absorbs, and a label is drawn between the begin and the end of its own cell
\* with the text of that cell; no event is sent and nothing is drawn for a
\* cell absorbed by a merge chain.  With the whole table in the clip area
\* every cell that is not absorbed has its events.
C38_DrawEvents ==
    \A clip_area \in ClipAreas(Tb) :
        LET out == lv_table_draw(Tb, clip_area)
            ev == PartEvents(out)
        IN /\ Len(ev) % 2 = 0
           /\ \A k \in 1 .. Len(ev) \div 2 :
                  /\ ev[2 * k - 1].ev = "LV_EVENT_DRAW_PART_BEGIN"
                  /\ ev[2 * k].ev = "LV_EVENT_DRAW_PART_END"
                  /\ ev[2 * k].id = ev[2 * k - 1].id
                  /\ k > 1 => ev[2 * k - 3].id < ev[2 * k - 1].id
           /\ \A i \in 1 .. Len(out) :
                  /\ out[i].id \in ChainHeads(Tb)
                  /\ out[i].ev = "lv_draw_label"
                     => /\ out[i - 2].ev = "LV_EVENT_DRAW_PART_BEGIN"
                        /\ out[i - 2].id = out[i].id
                        /\ out[i + 1].ev = "LV_EVENT_DRAW_PART_END"
                        /\ out[i + 1].id = out[i].id
                        /\ Tb.cell_data[out[i].id + 1] # NULL
                        /\ out[i].txt = Tb.cell_data[out[i].id + 1].txt
           /\ clip_area.x1 = 0 /\ clip_area.y1 = 0 /\ clip_area.y2 = 1000
              => /\ {ev[k].id : k \in 1 .. Len(ev)} = ChainHeads(Tb)
                 /\ \A id \in ChainHeads(Tb) :
                        Tb.cell_data[id + 1] # NULL
                        => \E i \in 1 .. Len(out) :
                               out[i].ev = "lv_draw_label" /\ out[i].id = id

\* a table of two rows with a cell in row 1 that has a text and is absorbed by
\* the merge chain of the cell to its left, which has a text as well: the
\* draw pass draws one label
C38_Witness ==
    /\ row_cnt = 2
    /\ col_cnt >= 2
    /\ 1 \in Absorbed(Tb, 1, 0)
    /\ cell_data_at(Tb, 1, 1).txt # <<>>
    /\ cell_data_at(Tb, 1, 0).txt # <<>>
    /\ Len(SelectSeq(lv_table_draw(Tb, [x1 |-> 0, x2 |-> 1000, y1 |-> 0, y2 |-> 1000]),
                     LAMBDA e : e.ev = "lv_draw_label")) = 1

\* C39 (does not hold): every label of the draw pass is laid out by the crop
\* flag of the cell whose text it is: vertically centred in the row where the
\* cell is not cropped, from the top padding where it is cropped.
C39_AlignByOwnCrop ==
    \A clip_area \in ClipAreas(Tb) :
        LET out == lv_table_draw(Tb, clip_area)
        IN \A i \in 1 .. Len(out) :
               out[i].ev = "lv_draw_label"
               => LET c == Tb.cell_data[out[i].id + 1]
                      cell_area == out[i - 2].area
                      h_row == cell_area.y2 - cell_area.y1 + 1
                      txt_h == txt_size_y(c.txt, cell_area.x2 - cell_area.x1 + 1
                                                     - cell_left - cell_right)
                  IN /\ out[i].crop = c.crop
                     /\ ~c.crop => /\ out[i].area.y1 = cell_area.y1 + h_row \div 2
                                                           - txt_h \div 2
                                   /\ out[i].area.y2 = cell_area.y1 + h_row \div 2
                                                           + txt_h \div 2
                     /\ c.crop => /\ out[i].area.y1 = cell_area.y1 + cell_top
                                  /\ out[i].area.y2 = cell_area.y2 - cell_bottom

\* the arrays of t have the sizes its counts say
ArraysMatchCounts(t) ==
    /\ Len(t.col_w) = t.col_cnt
    /\ Len(t.row_h) = t.row_cnt
    /\ Len(t.cell_data) = t.row_cnt * t.col_cnt

\* the cells t0 and t both have are in the array of t, with the entry of t0
CellsKept(t0, t) ==
    \A row \in 0 .. Min(t0.row_cnt, t.row_cnt) - 1,
       col \in 0 .. Min(t0.col_cnt, t.col_cnt) - 1 :
        /\ CellIndex(t, row, col) < Len(t.cell_data)
        /\ t.cell_data[CellIndex(t, row, col) + 1] = cell_data_at(t0, row, col)

\* C40 (does not hold): when the allocation of row_h, col_w or cell_data fails
\* in lv_table_set_row_cnt or lv_table_set_col_cnt, the table is consistent on
\* return: row_cnt and col_cnt are the sizes of the arrays held, cell_data has
\* row_cnt * col_cnt entries, and the cells the table had are read as before.
C40_AllocFailureConsistent ==
    ArraysMatchCounts(Tb)
    => \A junk \in {0, LV_DPI_DEF} :
           /\ \A cnt \in 1 .. MaxRowCnt, which \in {"row_h", "cell_data"} :
                  LET t == lv_table_set_row_cnt_nomem(Tb, cnt, which, junk)
                  IN ArraysMatchCounts(t) /\ CellsKept(Tb, t)
           /\ \A cnt \in 1 .. MaxColCnt, which \in {"col_w", "cell_data"} :
                  LET t == lv_table_set_col_cnt_nomem(Tb, cnt, which, junk)
                  IN ArraysMatchCounts(t) /\ CellsKept(Tb, t)

====
